---------------------------- MODULE Spec2Model ----------------------------
(***************************************************************************)
(* Model of the sampling-aware execution engine of google_apis:            *)
(*   src/ga-reporting.py  has_sampling, split_request (calculate_samples,  *)
(*                        generate_intervals), execute_api_queries,        *)
(*                        read_json_input                                  *)
(*   src/google_auth.py   send_request                                     *)
(*                                                                         *)
(* Representation.                                                         *)
(*   - An ISO date string "YYYY-MM-DD" is the triple <<y, m, d>> of its    *)
(*     fields; a datetime.date is its proleptic Gregorian ordinal; a       *)
(*     timedelta is a number of days (plus whole seconds where the code    *)
(*     reads them).                                                        *)
(*   - A decimal string such as "250000" is the sequence of its digits.    *)
(*   - Python objects that are copied or assigned into (request bodies)    *)
(*     live in heap, a sequence of cells; an address is an index of heap.  *)
(*   - A generator is a record holding its suspended position.             *)
(***************************************************************************)
EXTENDS Integers, Sequences, FiniteSets, TLC

VARIABLES
    pc,            \* position of execute_api_queries / send_request
    queue,         \* the chain of generators `queue` (ga-reporting.py:163,184)
    heap,          \* request-body objects, by address
    request_body,  \* address bound to request_body (0 before the first next)
    n,             \* loop variable n of send_request
    response,      \* value returned by send_request (None before)
    output_file,   \* what has been written to output_file
    error,         \* exception that left execute_api_queries ("" if none)
    DEBUGGING,     \* the DEBUGGING argument
    trace,         \* history: execute/sleep events of the current send_request
    origin,        \* history: per address, how the object was made and from what
    MAXSIZE,       \* class variable UARequestBatch.MAXSIZE (uar.py:376)
    call,          \* the operation of uar.py last called ("" before any)
    args,          \* the documents or arguments the calls are given
    obj,           \* the value object constructed or parsed (None before)
    out,           \* the value the last call returned (None before)
    raised         \* the exception the last call raised ("" if none)

\* state of the execution engine (ga-reporting.py, google_auth.py)
engine_vars == <<pc, queue, heap, request_body, n, response, output_file,
                 error, DEBUGGING, trace, origin>>

\* state of a use of the query model (uar.py, uar_types.py)
uar_vars == <<MAXSIZE, call, args, obj, out, raised>>

vars == <<engine_vars, uar_vars>>

-----------------------------------------------------------------------------
(* Bounds of the model.                                                    *)

\* days in the calendar window the input dates are drawn from
WindowDays == 7
\* samplingSpaceSizes[0] is drawn from 1..MaxSpace (plus the spec's example)
MaxSpace == 6
\* samplesReadCounts[0] is drawn from 1..MaxRead (plus the spec's example)
MaxRead == 2
\* number of request bodies in the input file is 1..MaxInput
MaxInput == 1
\* number of sampled responses the API returns in one run
MaxSampled == 1

\* documents given to one UARequestBatch.from_doc
MaxDocs == 3

\* largest value UARequestBatch.MAXSIZE is set to before a run
MaxChunk == 2

\* date ranges given to one UARequestKey
MaxRanges == 3

\* segments given to one UARequestKey
MaxSegments == 5

\* dimension columns given to one UARequest
MaxDims == 8

\* metric columns given to one UARequest
MaxMets == 11

\* filters given to one UARequest
MaxFilters == 2

\* largest index, of either sign, a DateRange is subscripted with
MaxIndex == 2

\* declarations in the body of a generated AliasedEnum class
MaxMembers == 3

\* items in the list of an IN filter expression
MaxItems == 2

\* characters of a string given to the case conversions
MaxChars == 4

\* lines of the input file of a run in which no submission fails
MaxLines == 2

-----------------------------------------------------------------------------
(* datetime.date: ordinals of the proleptic Gregorian calendar.            *)

None == [none |-> TRUE]

\* the query model is loaded and not used: MAXSIZE has its class default
UarIdle ==
    /\ MAXSIZE = 5
    /\ call = ""
    /\ args = None
    /\ obj = None
    /\ out = None
    /\ raised = ""

\* the execution engine is not running
EngineIdle ==
    /\ pc = "idle"
    /\ queue = <<>>
    /\ heap = <<>>
    /\ request_body = 0
    /\ n = 0
    /\ response = None
    /\ output_file = <<>>
    /\ error = ""
    /\ DEBUGGING = FALSE
    /\ trace = <<>>
    /\ origin = <<>>

is_leap(y) == (y % 4 = 0) /\ ((y % 100 # 0) \/ (y % 400 = 0))

days_before_year(y) ==
    LET y1 == y - 1 IN y1 * 365 + (y1 \div 4) - (y1 \div 100) + (y1 \div 400)

days_in_month(y, m) ==
    IF m = 2 THEN (IF is_leap(y) THEN 29 ELSE 28)
    ELSE IF m \in {4, 6, 9, 11} THEN 30 ELSE 31

RECURSIVE days_before_month(_, _)
days_before_month(y, m) ==
    IF m = 1 THEN 0
    ELSE days_before_month(y, m - 1) + days_in_month(y, m - 1)

\* date.fromisoformat: the date (ordinal) named by an ISO string
fromisoformat(s) ==
    days_before_year(s[1]) + days_before_month(s[1], s[2]) + s[3]

\* date.isoformat: the ISO string of a date (ordinal): the year and month
\* the ordinal falls in, and the day of that month
isoformat(ord) ==
    CHOOSE iso \in
        {<<ym[1], ym[2],
           d - days_before_year(ym[1]) - days_before_month(ym[1], ym[2])>> :
            <<d, ym>> \in
                {dym \in {ord} \X
                         (((ord \div 366)..((ord \div 365) + 1)) \X (1..12)) :
                    /\ days_before_year(dym[2][1]) < dym[1]
                    /\ dym[1] <= days_before_year(dym[2][1] + 1)
                    /\ days_before_month(dym[2][1], dym[2][2])
                           < dym[1] - days_before_year(dym[2][1])
                    /\ dym[1] - days_before_year(dym[2][1])
                           <= days_before_month(dym[2][1], dym[2][2])
                                  + days_in_month(dym[2][1], dym[2][2])}} : TRUE

\* int(str): the number a decimal string denotes
RECURSIVE int(_)
int(s) ==
    IF Len(s) = 0 THEN 0
    ELSE 10 * int(SubSeq(s, 1, Len(s) - 1)) + s[Len(s)]

\* the decimal string the API sends for a count
RECURSIVE str(_)
str(k) == IF k < 10 THEN <<k>> ELSE Append(str(k \div 10), k % 10)

-----------------------------------------------------------------------------
(* split_request and its helpers (src/ga-reporting.py:95-157).             *)

\* mutant of has_sampling: a report counts only if it carries both markers
has_sampling_both(resp) ==
    \E i \in 1..Len(resp.reports) :
        /\ "samplingSpaceSizes" \in DOMAIN resp.reports[i].data
        /\ "samplesReadCounts" \in DOMAIN resp.reports[i].data

\* has_sampling: some report carries one of the two sampling markers
has_sampling(resp) ==
    \E i \in 1..Len(resp.reports) :
        \/ "samplingSpaceSizes" \in DOMAIN resp.reports[i].data
        \/ "samplesReadCounts" \in DOMAIN resp.reports[i].data

\* what reading reports[0].data[key][0] raises, "" if it is there
lookup_error(resp, key) ==
    IF Len(resp.reports) = 0 THEN "IndexError"
    ELSE IF key \notin DOMAIN resp.reports[1].data THEN "KeyError"
    ELSE IF Len(resp.reports[1].data[key]) = 0 THEN "IndexError"
    ELSE ""

\* mutant of ceil_ratio: the correction factor 4/3 is left out
ceil_ratio_uncorrected(num_sessions, num_samples) ==
    (num_sessions + num_samples - 1) \div num_samples

\* math.ceil(num_sessions / num_samples * 4 / 3).  The float expression is
\* exact wherever 4*s/(3*r) is an integer and is off by less than 1/(3*r)
\* elsewhere (for counts below 2^50), so its ceiling is the integer one.
ceil_ratio(num_sessions, num_samples) ==
    (4 * num_sessions + 3 * num_samples - 1) \div (3 * num_samples)

\* calculate_samples: the sampling record, or the exception it raises
calculate_samples(resp) ==
    IF lookup_error(resp, "samplingSpaceSizes") # ""
    THEN [error |-> lookup_error(resp, "samplingSpaceSizes"),
          sessions |-> 0, samples |-> 0, num_intervals |-> 0]
    ELSE IF lookup_error(resp, "samplesReadCounts") # ""
    THEN [error |-> lookup_error(resp, "samplesReadCounts"),
          sessions |-> 0, samples |-> 0, num_intervals |-> 0]
    ELSE LET num_sessions == int(resp.reports[1].data["samplingSpaceSizes"][1])
             num_samples  == int(resp.reports[1].data["samplesReadCounts"][1])
         IN  IF num_samples = 0
             THEN [error |-> "ZeroDivisionError",
                   sessions |-> num_sessions, samples |-> num_samples,
                   num_intervals |-> 0]
             ELSE [error |-> "",
                   sessions |-> num_sessions, samples |-> num_samples,
                   num_intervals |-> ceil_ratio(num_sessions, num_samples)]

\* seconds in a day (timedelta normalisation)
SecondsPerDay == 86400

\* interval_len in days: temp = (end - start + 1 day) / num_intervals,
\* then temp.days + (temp.seconds > 0)
interval_len(start, end, num_intervals) ==
    LET total        == end - start + 1
        temp_days    == total \div num_intervals
        temp_seconds == ((total % num_intervals) * SecondsPerDay) \div num_intervals
    IN  temp_days + (IF temp_seconds > 0 THEN 1 ELSE 0)

\* the intervals list built for one date_range (ga-reporting.py:130-144)
intervals_of(date_range, num_intervals) ==
    LET start == fromisoformat(date_range.startDate)
        end   == fromisoformat(date_range.endDate)
        len   == interval_len(start, end, num_intervals)
    IN  [i \in 1..num_intervals |->
            IF i < num_intervals
            THEN [startDate |-> isoformat(start + (i - 1) * len),
                  endDate   |-> isoformat(start + (i - 1) * len + len - 1)]
            ELSE [startDate |-> isoformat(start + (num_intervals - 1) * len),
                  endDate   |-> isoformat(end)]]

\* mutant of generate_intervals: every date range gets the intervals of
\* the first one
generate_intervals_of_first(body, num_intervals) ==
    [k \in 1..Len(body.reportRequests[1].dateRanges) |->
        intervals_of(body.reportRequests[1].dateRanges[1], num_intervals)]

\* generate_intervals: one intervals list per date range of the first
\* report request (num_intervals >= 1)
generate_intervals(body, num_intervals) ==
    [k \in 1..Len(body.reportRequests[1].dateRanges) |->
        intervals_of(body.reportRequests[1].dateRanges[k], num_intervals)]

Min(S) == CHOOSE x \in S : \A y \in S : x <= y

\* mutant of zip: the last tuple is lost
zip_short(interval_groups) ==
    IF Len(interval_groups) = 0 THEN <<>>
    ELSE [i \in 1..(Len(interval_groups[1]) - 1) |->
            [k \in 1..Len(interval_groups) |-> interval_groups[k][i]]]

\* list(zip(*interval_groups)): the i-th tuple takes the i-th interval of
\* every group
zip(interval_groups) ==
    IF Len(interval_groups) = 0 THEN <<>>
    ELSE [i \in 1..Min({Len(interval_groups[k]) : k \in 1..Len(interval_groups)}) |->
            [k \in 1..Len(interval_groups) |-> interval_groups[k][i]]]

-----------------------------------------------------------------------------
(* Objects and generators.                                                 *)

\* store v at address a of sequence s (a is an address of s or the next one)
store(s, a, v) == IF a = Len(s) + 1 THEN Append(s, v) ELSE [s EXCEPT ![a] = v]

\* copy.deepcopy of the object at address a: a new object with equal contents
deepcopy(h, a) == [heap |-> Append(h, h[a]), addr |-> Len(h) + 1]

\* mutant of with_date_ranges: every report request becomes the first one
with_date_ranges_of_first(body, date_range_group) ==
    [body EXCEPT !.reportRequests =
        [i \in 1..Len(body.reportRequests) |->
            [body.reportRequests[1] EXCEPT !.dateRanges = date_range_group]]]

\* the body with every report request's dateRanges replaced
\* (ga-reporting.py:155-156)
with_date_ranges(body, date_range_group) ==
    [body EXCEPT !.reportRequests =
        [i \in 1..Len(body.reportRequests) |->
            [body.reportRequests[i] EXCEPT !.dateRanges = date_range_group]]]

\* mutant of narrowed_body: rb = request_body, without the deepcopy
narrowed_body_in_place(h, req, date_range_group) ==
    [heap |-> [h EXCEPT ![req] = with_date_ranges(@, date_range_group)],
     addr |-> req]

\* one turn of the for loop of split_request (ga-reporting.py:154-157):
\* rb = deepcopy(request_body), the assignments into rb, yield rb
narrowed_body(h, req, date_range_group) ==
    LET rb == deepcopy(h, req)
    IN  [heap |-> [rb.heap EXCEPT ![rb.addr] = with_date_ranges(@, date_range_group)],
         addr |-> rb.addr]

\* the generator read_json_input(input_file) over the lines of a JSONL
\* file, each line given as the request body json.loads makes of it; pos
\* lines have been yielded
input_generator(lines) ==
    [kind |-> "input", lines |-> lines, pos |-> 0, req |-> 0, resp |-> None,
     started |-> FALSE, groups |-> <<>>]

\* the generator split_request(bad_req, response), not yet started
split_generator(req, resp) ==
    [kind |-> "split", lines |-> <<>>, pos |-> 0, req |-> req, resp |-> resp,
     started |-> FALSE, groups |-> <<>>]

\* the body of split_request up to its for loop (ga-reporting.py:148-150):
\* the exception it raises, or the date range groups still to be yielded
split_start(g, h) ==
    LET sampling == calculate_samples(g.resp)
        ranges   == h[g.req].reportRequests[1].dateRanges
    IN  IF sampling.error # ""
        THEN [error |-> sampling.error, groups |-> <<>>]
        ELSE IF sampling.num_intervals = 0 /\ Len(ranges) > 0
        THEN [error |-> "ZeroDivisionError", groups |-> <<>>]
        ELSE [error |-> "",
              groups |-> zip(generate_intervals(h[g.req], sampling.num_intervals))]

no_yield == [result |-> "StopIteration", queue |-> <<>>, kind |-> "",
             heap |-> <<>>, addr |-> 0, parent |-> 0]

\* a generator that has nothing more to yield
exhausted(g) ==
    IF g.kind = "input" THEN g.pos = Len(g.lines)
    ELSE g.started /\ g.groups = <<>>

\* next(queue) on the chain of generators, from the i-th on: the first
\* value a generator of the chain yields, or StopIteration when all are
\* exhausted, or the exception a generator raises.  Exhausted generators
\* stay in the chain, where they are passed over.
RECURSIVE next_from(_, _, _)
next_from(q, h, i) ==
    LET pull(qq, ii, s) ==
            IF s.error # ""
            THEN [no_yield EXCEPT !.result = s.error, !.queue = qq]
            ELSE IF s.groups = <<>>
            THEN next_from([qq EXCEPT ![ii].started = TRUE], h, ii + 1)
            ELSE LET rb == narrowed_body(h, qq[ii].req, Head(s.groups))
                 IN  [no_yield EXCEPT
                         !.result = "yield",
                         !.queue  = [qq EXCEPT ![ii].started = TRUE,
                                               ![ii].groups = Tail(s.groups)],
                         !.kind   = "narrowed",
                         !.heap   = rb.heap,
                         !.addr   = rb.addr,
                         !.parent = qq[ii].req]
        at(qq, ii) ==
            IF ii > Len(qq) THEN [no_yield EXCEPT !.queue = qq]
            ELSE IF qq[ii].kind = "input"
            THEN IF qq[ii].pos = Len(qq[ii].lines) THEN next_from(qq, h, ii + 1)
                 ELSE [no_yield EXCEPT
                          !.result = "yield",
                          !.queue  = [qq EXCEPT ![ii].pos = @ + 1],
                          !.kind   = "input",
                          !.heap   = Append(h, qq[ii].lines[qq[ii].pos + 1]),
                          !.addr   = Len(h) + 1]
            ELSE CHOOSE r \in
                     {pull(qq, ii, s) : s \in
                         {IF qq[ii].started
                          THEN [error |-> "", groups |-> qq[ii].groups]
                          ELSE split_start(qq[ii], h)}} : TRUE
    IN  CHOOSE r \in {at(qq, ii) : qq \in {q}, ii \in {i}} : TRUE

next_of(q, h) == next_from(q, h, 1)

-----------------------------------------------------------------------------
(* send_request (src/google_auth.py:356-375).                              *)

retryable_errors ==
    {"userRateLimitExceeded", "quotedExceeded", "internalServerError",
     "backendError", "rateLimitExceeded", "Too Many Requests"}

max_retries == 6

\* mutant of retries: every reason is retried
retries_any_reason(reason, attempt) == attempt < max_retries

\* the test of line 372: sleep and go round the loop, or raise
retries(reason, attempt) == reason \in retryable_errors /\ attempt < max_retries

\* the for loop of line 367 has another turn after turn `attempt`
has_next_attempt(attempt) == attempt + 1 < max_retries

RECURSIVE pow2(_)
pow2(k) == IF k = 0 THEN 1 ELSE 2 * pow2(k - 1)

-----------------------------------------------------------------------------
(* The inputs: request bodies, responses, failure reasons.                 *)

\* first day of the calendar window (it spans the leap day of 2020)
WindowStart == <<2020, 2, 27>>

Days == {fromisoformat(WindowStart) + k : k \in 0..(WindowDays - 1)}

\* every date range {startDate, endDate} of the window with start <= end
DateRanges ==
    {[startDate |-> isoformat(a), endDate |-> isoformat(b)] :
        <<a, b>> \in {d \in Days \X Days : d[1] <= d[2]}}

date_range(a, b) ==
    [startDate |-> isoformat(fromisoformat(WindowStart) + a),
     endDate   |-> isoformat(fromisoformat(WindowStart) + b)]

report_request(view, ranges, metrics) ==
    [viewId |-> view, dateRanges |-> ranges, metrics |-> metrics]

\* request bodies of the input files of execute_api_queries: one report
\* request over five days, a one-day request, and a batch of two report
\* requests comparing two date ranges
InputBodies ==
    { [reportRequests |->
          <<report_request("101", <<date_range(0, 4)>>, "ga:sessions")>>,
       useResourceQuotas |-> FALSE],
      [reportRequests |->
          <<report_request("102", <<date_range(2, 2)>>, "ga:users")>>,
       useResourceQuotas |-> TRUE],
      [reportRequests |->
          <<report_request("103", <<date_range(0, 3), date_range(4, 5)>>, "ga:sessions"),
            report_request("103", <<date_range(0, 3), date_range(4, 5)>>, "ga:users")>>,
       useResourceQuotas |-> FALSE] }

\* input files: 1..MaxInput lines, each one request body
InputFiles == UNION {[1..k -> InputBodies] : k \in 1..MaxInput}

\* a report with the given data dictionary
report(data) == [data |-> data]

sampled_data(space, read) ==
    [rows |-> "rows", samplingSpaceSizes |-> <<str(space)>>,
     samplesReadCounts |-> <<str(read)>>]

\* the response of a request that was not sampled
CleanResponse == [reports |-> <<report([rows |-> "rows"])>>]

\* a response whose first report carries both markers
sampled_response(space, read) == [reports |-> <<report(sampled_data(space, read))>>]

\* the example of the specification: 1000000 sessions, 250000 read
ExampleResponse == sampled_response(1000000, 250000)

\* sampled responses the API returns in a run of execute_api_queries: the
\* example, a half-read space, one with samplingSpaceSizes alone, one whose
\* first report is clean and whose second has samplesReadCounts alone
SampledResponses ==
    { ExampleResponse,
      sampled_response(2, 1),
      [reports |-> <<report([rows |-> "rows", samplingSpaceSizes |-> <<str(5)>>])>>],
      [reports |-> <<report([rows |-> "rows"]),
                     report([rows |-> "rows", samplesReadCounts |-> <<str(1)>>])>>] }

\* reasons of the HttpError a failed execute raises
Reasons == {"backendError", "Forbidden"}

\* sampled responses handled so far in the run
sampled_count == Cardinality({a \in 1..Len(origin) : origin[a].kind = "bad_req"})

-----------------------------------------------------------------------------
(* execute_api_queries (src/ga-reporting.py:160-190).                      *)

Init ==
    /\ pc = "next"
    /\ \E lines \in InputFiles : queue = <<input_generator(lines)>>
    /\ heap = <<>>
    /\ request_body = 0
    /\ n = 0
    /\ response = None
    /\ output_file = <<>>
    /\ error = ""
    /\ DEBUGGING \in BOOLEAN
    /\ trace = <<>>
    /\ origin = <<>>
    /\ UarIdle

\* line 166-168: request_body = next(queue) yields; the request is built
\* and send_request is entered
NextRequest ==
    /\ pc = "next"
    /\ \E r \in {next_of(queue, heap)} :
        /\ r.result = "yield"
        /\ queue' = r.queue
        /\ heap' = r.heap
        /\ request_body' = r.addr
        /\ origin' = store(origin, r.addr, [kind |-> r.kind, parent |-> r.parent])
    /\ pc' = "execute"
    /\ n' = 0
    /\ trace' = <<>>
    /\ UNCHANGED <<response, output_file, error, DEBUGGING>>
    /\ UNCHANGED uar_vars

\* line 166, 189-190: next(queue) raises StopIteration, the function returns
QueueExhausted ==
    /\ pc = "next"
    /\ \E r \in {next_of(queue, heap)} :
        /\ r.result = "StopIteration"
        /\ queue' = r.queue
    /\ pc' = "done"
    /\ UNCHANGED <<heap, request_body, n, response, output_file, error,
                   DEBUGGING, trace, origin>>
    /\ UNCHANGED uar_vars

\* line 166: a split_request generator raises as it is started by next(queue)
SplitRaises ==
    /\ pc = "next"
    /\ next_of(queue, heap).result \notin {"yield", "StopIteration"}
    /\ pc' = "raised"
    /\ error' = next_of(queue, heap).result
    /\ UNCHANGED <<queue, heap, request_body, n, response, output_file,
                   DEBUGGING, trace, origin>>
    /\ UNCHANGED uar_vars

\* history record of one request.execute() of send_request
executed(outcome) ==
    [ev |-> "execute", n |-> n, body |-> heap[request_body],
     outcome |-> outcome, delay |-> 0]

\* history record of one time.sleep((2 ** n) + random.random()); delay is
\* its whole seconds
slept ==
    [ev |-> "sleep", n |-> n, body |-> heap[request_body],
     outcome |-> "slept", delay |-> pow2(n)]

\* google_auth.py:369: request.execute() returns a response
ExecuteReturns ==
    /\ pc = "execute"
    /\ \E resp \in {CleanResponse} \cup
                   (IF sampled_count < MaxSampled THEN SampledResponses ELSE {}) :
          response' = resp
    /\ trace' = Append(trace, executed("ok"))
    /\ pc' = "handle"
    /\ UNCHANGED <<queue, heap, request_body, n, output_file, error,
                   DEBUGGING, origin>>
    /\ UNCHANGED uar_vars

\* google_auth.py:371-375: request.execute() raises HttpError
ExecuteFails ==
    /\ pc = "execute"
    /\ \E reason \in Reasons :
        /\ trace' = Append(trace, executed(reason))
        /\ IF retries(reason, n)
           THEN pc' = "sleep" /\ error' = error
           ELSE pc' = "raised" /\ error' = "HttpError"
    /\ UNCHANGED <<queue, heap, request_body, n, response, output_file,
                   DEBUGGING, origin>>
    /\ UNCHANGED uar_vars

\* google_auth.py:373, 367: time.sleep((2 ** n) + random.random()) ends; the
\* loop takes its next turn, or is over and send_request returns None
Sleep ==
    /\ pc = "sleep"
    /\ trace' = Append(trace, slept)
    /\ IF has_next_attempt(n)
       THEN n' = n + 1 /\ pc' = "execute" /\ response' = response
       ELSE n' = n /\ pc' = "handle" /\ response' = None
    /\ UNCHANGED <<queue, heap, request_body, output_file, error,
                   DEBUGGING, origin>>
    /\ UNCHANGED uar_vars

\* mutant of record: no record is terminated by a newline
record_unterminated(resp, h, tagged, terminated) ==
    [reports |-> resp.reports, request |-> h[tagged], nl |-> FALSE,
     addr |-> request_body, answers |-> trace[Len(trace)].body]

\* what json.dump writes for a response tagged with a request body; the
\* history fields name the object tagged and the body whose execute
\* returned the response
record(resp, h, tagged, terminated) ==
    [reports |-> resp.reports, request |-> h[tagged], nl |-> terminated,
     addr |-> request_body, answers |-> trace[Len(trace)].body]

\* mutant of tag_of: the first request body of the run is tagged
tag_of_first(body_addr) == 1

\* the object tagged onto a response that is not sampled (line 186)
tag_of(body_addr) == body_addr

\* line 170 on None: has_sampling(None) raises TypeError
HandleNone ==
    /\ pc = "handle"
    /\ response = None
    /\ pc' = "raised"
    /\ error' = "TypeError"
    /\ UNCHANGED <<queue, heap, request_body, n, response, output_file,
                   DEBUGGING, trace, origin>>
    /\ UNCHANGED uar_vars

\* mutant of chain: the new generator is put in front of the queue
chain_in_front(q, g) == <<g>> \o q

\* itertools.chain(queue, g) (ga-reporting.py:184): g is drawn from when
\* the generators of queue are exhausted
chain(q, g) == Append(q, g)

\* lines 170-184: the response is sampled.  bad_req is a copy of the request
\* body; with DEBUGGING the response is dumped, tagged with bad_req and
\* without a newline (the print of line 177 goes to standard output and is
\* not part of output_file here); the responses handed on are copies by
\* value
HandleSampled ==
    /\ pc = "handle"
    /\ response # None
    /\ has_sampling(response)
    /\ LET bad_req == deepcopy(heap, request_body) IN
        /\ heap' = bad_req.heap
        /\ origin' = store(origin, bad_req.addr,
                           [kind |-> "bad_req", parent |-> request_body])
        /\ output_file' =
              IF DEBUGGING
              THEN Append(output_file, record(response, bad_req.heap, bad_req.addr, FALSE))
              ELSE output_file
        /\ queue' = chain(queue, split_generator(bad_req.addr, response))
    /\ pc' = "next"
    /\ trace' = <<>>
    /\ UNCHANGED <<request_body, n, response, error, DEBUGGING>>
    /\ UNCHANGED uar_vars

\* lines 185-188: the response is not sampled
HandleClean ==
    /\ pc = "handle"
    /\ response # None
    /\ ~has_sampling(response)
    /\ output_file' = Append(output_file,
                             record(response, heap, tag_of(request_body), TRUE))
    /\ pc' = "next"
    /\ trace' = <<>>
    /\ UNCHANGED <<queue, heap, request_body, n, response, error,
                   DEBUGGING, origin>>
    /\ UNCHANGED uar_vars

Next ==
    \/ NextRequest
    \/ QueueExhausted
    \/ SplitRaises
    \/ ExecuteReturns
    \/ ExecuteFails
    \/ Sleep
    \/ HandleNone
    \/ HandleSampled
    \/ HandleClean

Spec == Init /\ [][Next]_vars

-----------------------------------------------------------------------------
(* split_request on its own: every date range of the window against every  *)
(* sampling ratio, the narrowed requests pulled one by one as by           *)
(* `for rb in split_request(bad_req, response)`.                           *)

\* request bodies split in SpecIntervals: every date range of the window
\* alone, and as the first of two date ranges of a two-request batch
IntervalBodies ==
    {[reportRequests |-> <<report_request("101", <<dr>>, "ga:sessions")>>,
      useResourceQuotas |-> FALSE] : dr \in DateRanges}
    \cup
    {[reportRequests |->
         <<report_request("103", <<dr, date_range(1, 2)>>, "ga:sessions"),
           report_request("103", <<dr, date_range(1, 2)>>, "ga:users")>>,
      useResourceQuotas |-> TRUE] : dr \in DateRanges}

\* sampled responses split in SpecIntervals
IntervalResponses ==
    {sampled_response(space, read) : space \in 1..MaxSpace, read \in 1..MaxRead}
    \cup {ExampleResponse}

\* the state execute_api_queries is in after it handled a sampled response
\* to the only request of its input
InitIntervals ==
    /\ pc = "pull"
    /\ \E body \in IntervalBodies, resp \in IntervalResponses :
        /\ heap = <<body, body>>
        /\ response = resp
        /\ queue = <<[input_generator(<<body>>) EXCEPT !.pos = 1],
                     split_generator(2, resp)>>
    /\ request_body = 1
    /\ n = 0
    /\ output_file = <<>>
    /\ error = ""
    /\ DEBUGGING = FALSE
    /\ trace = <<>>
    /\ origin = <<[kind |-> "input", parent |-> 0],
                  [kind |-> "bad_req", parent |-> 1]>>
    /\ UarIdle

\* the generator yields its next narrowed request
PullNarrowed ==
    /\ pc = "pull"
    /\ LET r == next_of(queue, heap) IN
        /\ r.result = "yield"
        /\ queue' = r.queue
        /\ heap' = r.heap
        /\ request_body' = r.addr
        /\ origin' = store(origin, r.addr, [kind |-> r.kind, parent |-> r.parent])
    /\ UNCHANGED <<pc, n, response, output_file, error, DEBUGGING, trace>>
    /\ UNCHANGED uar_vars

\* the generator is exhausted
PullStops ==
    /\ pc = "pull"
    /\ next_of(queue, heap).result = "StopIteration"
    /\ pc' = "done"
    /\ queue' = next_of(queue, heap).queue
    /\ UNCHANGED <<heap, request_body, n, response, output_file, error,
                   DEBUGGING, trace, origin>>
    /\ UNCHANGED uar_vars

NextIntervals == PullNarrowed \/ PullStops

SpecIntervals == InitIntervals /\ [][NextIntervals]_vars

-----------------------------------------------------------------------------
(* Vocabulary of the properties.                                           *)

\* number of days a date range {startDate, endDate} spans
days_of(dr) == fromisoformat(dr.endDate) - fromisoformat(dr.startDate) + 1

\* addresses of the requests taken from the work queue
Requests == {a \in 1..Len(heap) : origin[a].kind \in {"input", "narrowed"}}

\* addresses of the copies bad_req made of sampled requests
BadReqs == {a \in 1..Len(heap) : origin[a].kind = "bad_req"}

\* addresses of the narrowed requests yielded from bad_req p, in yield order
narrowed_of(p) ==
    SelectSeq([a \in 1..Len(heap) |-> a],
              LAMBDA a : origin[a].kind = "narrowed" /\ origin[a].parent = p)

\* the sub-ranges made of the k-th date range of p, in yield order
sub_ranges(p, k) ==
    [j \in 1..Len(narrowed_of(p)) |->
        heap[narrowed_of(p)[j]].reportRequests[1].dateRanges[k]]

\* the interval count split_request works with in SpecIntervals
intervals_asked == calculate_samples(response).num_intervals

\* the least number of days per interval that covers total days in cnt
\* intervals, ceil(total / cnt)
per_interval_days(total, cnt) ==
    CHOOSE l \in 0..total : l * cnt >= total /\ (l - 1) * cnt < total

-----------------------------------------------------------------------------
(* C1: for every date range (start <= end) and every interval count        *)
(* n >= 1, the sub-ranges split_request yields are exactly n, the first    *)
(* starts on the original start date, each next one starts the day after   *)
(* the previous one ends, the last ends on the original end date, and no   *)
(* sub-range has a day outside the original span (so each is a range with  *)
(* startDate <= endDate inside it).                                        *)
C1_Partition ==
    pc = "done" =>
        \A p \in BadReqs :
        \A k \in 1..Len(heap[p].reportRequests[1].dateRanges) :
            LET orig == heap[p].reportRequests[1].dateRanges[k]
                subs == sub_ranges(p, k)
                cnt  == intervals_asked
                s(j) == fromisoformat(subs[j].startDate)
                e(j) == fromisoformat(subs[j].endDate)
            IN  /\ Len(subs) = cnt
                /\ s(1) = fromisoformat(orig.startDate)
                /\ \A j \in 1..(cnt - 1) : s(j + 1) = e(j) + 1
                /\ e(cnt) = fromisoformat(orig.endDate)
                /\ \A j \in 1..cnt :
                    /\ fromisoformat(orig.startDate) <= s(j)
                    /\ s(j) <= e(j)
                    /\ e(j) <= fromisoformat(orig.endDate)

(* C2: the first n-1 sub-ranges each span ceil(total_days / n) days, and   *)
(* the last spans at least 1 day and at most ceil(total_days / n) days.    *)
C2_Lengths ==
    pc = "done" =>
        \A p \in BadReqs :
        \A k \in 1..Len(heap[p].reportRequests[1].dateRanges) :
            LET orig == heap[p].reportRequests[1].dateRanges[k]
                subs == sub_ranges(p, k)
                cnt  == intervals_asked
                per  == per_interval_days(days_of(orig), cnt)
            IN  /\ Len(subs) = cnt
                /\ \A j \in 1..(cnt - 1) : days_of(subs[j]) = per
                /\ days_of(subs[cnt]) >= 1
                /\ days_of(subs[cnt]) <= per

(* C3: every narrowed request has date ranges strictly shorter than the    *)
(* corresponding date ranges of the sampled request it was split from,     *)
(* and never the same date ranges.                                         *)
C3_StrictlyShorter ==
    \A a \in Requests :
        origin[a].kind = "narrowed" =>
            LET p == origin[a].parent IN
            \A i \in 1..Len(heap[a].reportRequests) :
                /\ heap[a].reportRequests[i].dateRanges
                       # heap[p].reportRequests[i].dateRanges
                /\ \A k \in 1..Len(heap[a].reportRequests[i].dateRanges) :
                       days_of(heap[a].reportRequests[i].dateRanges[k])
                           < days_of(heap[p].reportRequests[i].dateRanges[k])

(* C4 (as amended): the number of narrowed requests is                     *)
(* ceil(samplingSpaceSizes[0] / samplesReadCounts[0] * 4/3), the least m   *)
(* with 3 * read * m >= 4 * space; for 1000000 and 250000 it is 6.         *)
C4_Intervals ==
    pc = "done" =>
        \A p \in BadReqs :
            LET m     == Len(narrowed_of(p))
                space == int(response.reports[1].data["samplingSpaceSizes"][1])
                read  == int(response.reports[1].data["samplesReadCounts"][1])
            IN  /\ 3 * read * m >= 4 * space
                /\ 3 * read * (m - 1) < 4 * space
                /\ (response = ExampleResponse => m = 6)

\* the example has been split, into 6
C4_Witness ==
    /\ pc = "done"
    /\ response = ExampleResponse
    /\ Len(narrowed_of(2)) = 6

(* C4 as claimed: the count is the ceiling above, and for 1000000 and      *)
(* 250000 it is 4.                                                         *)
C4_Original ==
    pc = "done" =>
        \A p \in BadReqs :
            LET m     == Len(narrowed_of(p))
                space == int(response.reports[1].data["samplingSpaceSizes"][1])
                read  == int(response.reports[1].data["samplesReadCounts"][1])
            IN  /\ 3 * read * m >= 4 * space
                /\ 3 * read * (m - 1) < 4 * space
                /\ (response = ExampleResponse => m = 4)

(* C5: a narrowed request body equals the body it was split from in every  *)
(* field except dateRanges: the same keys, the same number of report       *)
(* requests, and in every report request the same value under every key    *)
(* other than dateRanges.                                                  *)
C5_OnlyDateRanges ==
    \A a \in Requests :
        origin[a].kind = "narrowed" =>
            LET new == heap[a]
                old == heap[origin[a].parent]
            IN  /\ DOMAIN new = DOMAIN old
                /\ \A key \in DOMAIN old \ {"reportRequests"} : new[key] = old[key]
                /\ Len(new.reportRequests) = Len(old.reportRequests)
                /\ \A i \in 1..Len(old.reportRequests) :
                    /\ DOMAIN new.reportRequests[i] = DOMAIN old.reportRequests[i]
                    /\ \A key \in DOMAIN old.reportRequests[i] \ {"dateRanges"} :
                           new.reportRequests[i][key] = old.reportRequests[i][key]

\* a batch of two different report requests has been narrowed
C5_Witness ==
    \E a \in Requests :
        /\ origin[a].kind = "narrowed"
        /\ Len(heap[a].reportRequests) = 2
        /\ heap[a].reportRequests[1].metrics # heap[a].reportRequests[2].metrics
        /\ heap[a].reportRequests[2].dateRanges
               # heap[origin[a].parent].reportRequests[2].dateRanges

(* C6: refinement never mutates in place: no step changes an object that   *)
(* exists (the sampled request body and its copy bad_req stay as they      *)
(* were while the narrowed requests are yielded), and every request taken  *)
(* from the queue is a new object, so that a change made to it reaches no  *)
(* other request body.                                                     *)
C6_NoMutationInPlace ==
    [][/\ Len(heap') >= Len(heap)
       /\ \A a \in 1..Len(heap) : heap'[a] = heap[a]
       /\ request_body' # request_body => request_body' > Len(heap)
       /\ \A a \in 1..Len(heap') :
             a > Len(heap) /\ origin'[a].kind = "bad_req" => a # request_body'
      ]_vars

\* a split has yielded two different narrowed requests and the sampled
\* request and its copy are as they were
C6_Witness ==
    \E p \in BadReqs :
        /\ Len(narrowed_of(p)) >= 2
        /\ heap[narrowed_of(p)[1]] # heap[narrowed_of(p)[2]]
        /\ heap[p] = heap[origin[p].parent]
        /\ heap[p] \in InputBodies

-----------------------------------------------------------------------------
(* Vocabulary of the properties of execute_api_queries and send_request.   *)

\* positions in output_file of the records written for request a
records_of(a) == {i \in DOMAIN output_file : output_file[i].addr = a}

\* number of newline-terminated records written for request a
emitted(a) == Cardinality({i \in records_of(a) : output_file[i].nl})

\* number of times request a was split into narrowed requests
splits(a) == Cardinality({p \in BadReqs : origin[p].parent = a})

\* the exception ended the handling of request_body itself
fatal_for_request == pc = "raised" /\ error \in {"HttpError", "TypeError"}

\* positions in trace of the executes that failed with a retryable reason
retryable_failures ==
    {i \in DOMAIN trace :
        trace[i].ev = "execute" /\ trace[i].outcome \in retryable_errors}

C8_TaggedWithOwnRequest ==
    \A i \in DOMAIN output_file : output_file[i].request = output_file[i].answers

\* the response of a narrowed request was written, tagged with a body
\* other than the first body of the run
C8_Witness ==
    \E i \in DOMAIN output_file :
        /\ output_file[i].nl
        /\ origin[output_file[i].addr].kind = "narrowed"
        /\ output_file[i].request # heap[1]

(* C9: once max_retries executes of a request have failed with a retryable *)
(* reason, send_request does not return normally, the exception that ends  *)
(* execute_api_queries is the HttpError of the request, and no record is   *)
(* written for the request.                                                *)
C9_ExhaustedIsFatal ==
    Cardinality(retryable_failures) = max_retries =>
        /\ pc # "handle"
        /\ pc = "raised" => error = "HttpError"
        /\ records_of(request_body) = {}

\* what follows a retryable failure that is not the last turn of the loop:
\* a sleep of 2^n seconds and more, then an execute of the same body
retried(i) ==
    \/ i = Len(trace) /\ pc = "sleep"
    \/ /\ i + 1 = Len(trace)
       /\ trace[i + 1].ev = "sleep" /\ trace[i + 1].delay = pow2(trace[i].n)
       /\ pc = "execute" /\ heap[request_body] = trace[i].body
    \/ /\ i + 2 <= Len(trace)
       /\ trace[i + 1].ev = "sleep" /\ trace[i + 1].delay = pow2(trace[i].n)
       /\ trace[i + 2].ev = "execute" /\ trace[i + 2].body = trace[i].body

\* an execute after which send_request is left: it is the last event
final(i, how) == i = Len(trace) /\ pc = how

(* C10 (as amended): a failure with a reason that is not retryable is      *)
(* raised at once, with no further execute; a retryable failure of any of  *)
(* the first max_retries - 1 executes is followed by a backoff sleep and   *)
(* another execute of the identical request, the retryable failure of the  *)
(* last one by a sleep and no execute; the first execute that succeeds     *)
(* returns its response and no further attempt is made; there are at most  *)
(* max_retries executes.                                                   *)
C10_Retry ==
    /\ Cardinality({i \in DOMAIN trace : trace[i].ev = "execute"}) <= max_retries
    /\ \A i \in DOMAIN trace :
        trace[i].ev = "execute" =>
            IF trace[i].outcome = "ok"
            THEN final(i, "handle") /\ response # None
            ELSE IF trace[i].outcome \notin retryable_errors
            THEN final(i, "raised") /\ error = "HttpError"
            ELSE IF trace[i].n < max_retries - 1
            THEN retried(i)
            ELSE \/ i = Len(trace) /\ pc = "sleep"
                 \/ /\ i + 1 = Len(trace) /\ trace[i + 1].ev = "sleep"
                    /\ pc \in {"handle", "raised"}

\* a request failed with a retryable reason, was slept on and executed
\* again, with success
C10_Witness ==
    /\ pc = "handle"
    /\ Len(trace) >= 3
    /\ trace[Len(trace)].outcome = "ok"
    /\ retryable_failures # {}

(* C10 as claimed: every retryable failure is followed by a backoff sleep  *)
(* and another execute of the identical request.                           *)
C10_Original ==
    \A i \in DOMAIN trace :
        trace[i].ev = "execute" =>
            IF trace[i].outcome = "ok"
            THEN final(i, "handle") /\ response # None
            ELSE IF trace[i].outcome \notin retryable_errors
            THEN final(i, "raised") /\ error = "HttpError"
            ELSE retried(i)

-----------------------------------------------------------------------------
(* The query model: uar_types.py and uar.py.                               *)
(*                                                                         *)
(* Representation.                                                         *)
(*   - A string the code takes apart or rewrites character by character    *)
(*     (the names of ColumnType and FilterType, the option keys, a page    *)
(*     token) is the sequence of its characters; join is the string they   *)
(*     spell.  A view id is a decimal string as above.                     *)
(*   - A call that may raise returns [exc, value]: exc is "" and value is  *)
(*     what the call returns, or exc names the exception raised.           *)
(*   - A dict is a function of its keys (a record where the keys are       *)
(*     fixed); d1 | d2 is d2 @@ d1.  A dict that is iterated (the columns  *)
(*     and filters of a document, the data of a batch) is the sequence of  *)
(*     its <<key, value>> items in insertion order.                        *)
(*   - An attrs instance is the record of its fields.  The value of a      *)
(*     field or parameter whose type is a union (Optional[...],            *)
(*     int | str | list[str]) carries its Python type: it is None,         *)
(*     [int |-> k], [str |-> s], [list |-> items] or [tuple |-> items].    *)

returned(v) == [exc |-> "", value |-> v]

raise(e) == [exc |-> e, value |-> None]

\* the first exception of a sequence of results ("" if none raised)
first_exc(results) ==
    IF \A i \in DOMAIN results : results[i].exc = "" THEN ""
    ELSE results[CHOOSE i \in DOMAIN results :
                    /\ results[i].exc # ""
                    /\ \A j \in 1..(i - 1) : results[j].exc = ""].exc

\* the values of a sequence of results
values_of(results) == [i \in DOMAIN results |-> results[i].value]

\* chain.from_iterable over a sequence of sequences
RECURSIVE from_iterable(_)
from_iterable(seqs) ==
    IF seqs = <<>> THEN <<>> ELSE Head(seqs) \o from_iterable(Tail(seqs))

ascii_uppercase ==
    <<"A", "B", "C", "D", "E", "F", "G", "H", "I", "J", "K", "L", "M",
      "N", "O", "P", "Q", "R", "S", "T", "U", "V", "W", "X", "Y", "Z">>

ascii_lowercase ==
    <<"a", "b", "c", "d", "e", "f", "g", "h", "i", "j", "k", "l", "m",
      "n", "o", "p", "q", "r", "s", "t", "u", "v", "w", "x", "y", "z">>

\* the character of alphabet `to` at the place c has in alphabet `from`;
\* c itself when it is not in `from`
translate(c, from, to) ==
    IF \E i \in DOMAIN from : from[i] = c
    THEN to[CHOOSE i \in DOMAIN from : from[i] = c]
    ELSE c

\* str.upper
upper(s) == [i \in DOMAIN s |-> translate(s[i], ascii_lowercase, ascii_uppercase)]

\* str.lower
lower(s) == [i \in DOMAIN s |-> translate(s[i], ascii_uppercase, ascii_lowercase)]

\* the string a sequence of characters spells
RECURSIVE join(_)
join(s) == IF s = <<>> THEN "" ELSE Head(s) \o join(Tail(s))

-----------------------------------------------------------------------------
(* uar_types.py: the enumerations.  An Enum class is the sequence of the   *)
(* name = value declarations of its body.                                  *)

\* mutant of canonical: every declaration makes a member of its own
canonical_no_alias(cls, i) == cls[i]

\* enum.Enum: the member a declaration makes, or is an alias of: the first
\* declared member that has its value
canonical(cls, i) ==
    cls[CHOOSE j \in 1..i :
           /\ cls[j].value = cls[i].value
           /\ \A k \in 1..(j - 1) : cls[k].value # cls[i].value]

\* iter(cls): the members in declaration order, aliases left out
members(cls) ==
    LET idx == {i \in DOMAIN cls : canonical(cls, i) = cls[i]}
        nth(k) == CHOOSE i \in idx : Cardinality({j \in idx : j < i}) = k - 1
    IN  [k \in 1..Cardinality(idx) |-> cls[nth(k)]]

\* cls[name]
Enum_getitem(cls, name) ==
    IF \E i \in DOMAIN cls : cls[i].name = name
    THEN returned(canonical(cls, CHOOSE i \in DOMAIN cls : cls[i].name = name))
    ELSE raise("KeyError")

\* cls.NAME for a name the class declares
member(cls, name) == Enum_getitem(cls, name).value

SamplingLevel ==
    <<[name |-> "SMALL", value |-> 1],
      [name |-> "DEFAULT", value |-> 2],
      [name |-> "MEDIUM", value |-> 2],
      [name |-> "LARGE", value |-> 3]>>

ColumnType ==
    <<[name |-> <<"D", "I", "M", "E", "N", "S", "I", "O", "N">>, value |-> 1],
      [name |-> <<"M", "E", "T", "R", "I", "C">>, value |-> 2]>>

FilterType ==
    <<[name |-> <<"D", "I", "M", "E", "N", "S", "I", "O", "N">>, value |-> 1],
      [name |-> <<"M", "E", "T", "R", "I", "C">>, value |-> 2],
      [name |-> <<"S", "E", "G", "M", "E", "N", "T">>, value |-> 3]>>

UAFilterLiteral(op, negated) == [op |-> op, negated |-> negated]

AliasedValue(expr, ua) == [expr |-> expr, ua |-> ua]

FilterOperator ==
    <<[name |-> "EQ", value |-> AliasedValue("==", UAFilterLiteral("EXACT", FALSE))],
      [name |-> "NEQ", value |-> AliasedValue("!=", UAFilterLiteral("EXACT", TRUE))],
      [name |-> "IN", value |-> AliasedValue("IN", UAFilterLiteral("IN_LIST", FALSE))],
      [name |-> "GT", value |-> AliasedValue(">", UAFilterLiteral("GREATER_THAN", FALSE))],
      [name |-> "GTE", value |-> AliasedValue(">=", UAFilterLiteral("LESS_THAN", TRUE))]>>

\* mutant of AliasedEnum_get: the last member that matches
AliasedEnum_get_last(cls, key_type, key_val) ==
    LET ms == members(cls)
        hits == {i \in DOMAIN ms : ms[i].value[key_type] = key_val}
    IN  IF hits = {} THEN raise("StopIteration")
        ELSE returned(ms[CHOOSE i \in hits : \A j \in hits : j <= i])

\* AliasedEnum.get: next(filter(key_matches, cls))
AliasedEnum_get(cls, key_type, key_val) ==
    LET ms == members(cls)
        hits == {i \in DOMAIN ms : ms[i].value[key_type] = key_val}
    IN  IF hits = {} THEN raise("StopIteration")
        ELSE returned(ms[CHOOSE i \in hits : \A j \in hits : i <= j])

-----------------------------------------------------------------------------
(* uar.py: helpers and value objects.                                      *)

CURRENT_VERSION == <<0, 1>>

NotImplemented == [NotImplemented |-> TRUE]

\* mutant of camel_to_snake_case: the letter keeps its case
camel_to_snake_case_keep_case(instr) ==
    from_iterable([i \in DOMAIN instr |->
        IF \E k \in DOMAIN ascii_uppercase : ascii_uppercase[k] = instr[i]
        THEN <<"_", instr[i]>>
        ELSE <<instr[i]>>])

\* camel_to_snake_case: re.sub(r"([A-Z])", repl, instr)
camel_to_snake_case(instr) ==
    from_iterable([i \in DOMAIN instr |->
        IF \E k \in DOMAIN ascii_uppercase : ascii_uppercase[k] = instr[i]
        THEN <<"_", translate(instr[i], ascii_uppercase, ascii_lowercase)>>
        ELSE <<instr[i]>>])

\* mutant of snake_to_camel_case: the pattern is r"_(.)"
RECURSIVE snake_to_camel_case_any(_)
snake_to_camel_case_any(instr) ==
    IF instr = <<>> THEN <<>>
    ELSE IF Len(instr) >= 2 /\ instr[1] = "_"
    THEN <<translate(instr[2], ascii_lowercase, ascii_uppercase)>>
             \o snake_to_camel_case_any(SubSeq(instr, 3, Len(instr)))
    ELSE <<instr[1]>> \o snake_to_camel_case_any(Tail(instr))

\* snake_to_camel_case: re.sub(r"_([a-z])", repl, instr); the matches are
\* taken from left to right and do not overlap
RECURSIVE snake_to_camel_case(_)
snake_to_camel_case(instr) ==
    IF instr = <<>> THEN <<>>
    ELSE IF /\ Len(instr) >= 2
            /\ instr[1] = "_"
            /\ \E k \in DOMAIN ascii_lowercase : ascii_lowercase[k] = instr[2]
    THEN <<translate(instr[2], ascii_lowercase, ascii_uppercase)>>
             \o snake_to_camel_case(SubSeq(instr, 3, Len(instr)))
    ELSE <<instr[1]>> \o snake_to_camel_case(Tail(instr))

\* the i-th element (from 1) of chain.from_iterable(map(lambda x:
\* repeat(x, chunksize), count(0)))
counter(i, chunksize) == (i - 1) \div chunksize

\* itertools.groupby(zipped, lambda x: x[0]): the runs of equal first
\* components, each run the sequence of its items
RECURSIVE groupby(_)
groupby(zipped) ==
    IF zipped = <<>> THEN <<>>
    ELSE LET rest == groupby(Tail(zipped)) IN
         IF rest # <<>> /\ Head(rest)[1][1] = Head(zipped)[1]
         THEN <<(<<Head(zipped)>> \o Head(rest))>> \o Tail(rest)
         ELSE <<(<<Head(zipped)>>)>> \o rest

\* mutant of chunk: the chunks are one item longer than chunksize
chunk_one_longer(iterator, chunksize) ==
    LET zipped == [i \in DOMAIN iterator |-> <<counter(i, chunksize + 1), iterator[i]>>]
        groups == groupby(zipped)
    IN  [g \in DOMAIN groups |-> [y \in DOMAIN groups[g] |-> groups[g][y][2]]]

\* chunk(iterator, chunksize), for chunksize >= 1
chunk(iterator, chunksize) ==
    LET zipped == [i \in DOMAIN iterator |-> <<counter(i, chunksize), iterator[i]>>]
        groups == groupby(zipped)
    IN  [g \in DOMAIN groups |-> [y \in DOMAIN groups[g] |-> groups[g][y][2]]]

\* len(value) of a list or tuple
len(value) == Len(value[CHOOSE t \in DOMAIN value : TRUE])

\* mutant of len_between: a list that is too long passes
len_between_no_max(min_len, max_len, value) ==
    value # None => ~(len(value) < min_len)

\* len_between(min_len, max_len): TRUE when check returns, FALSE when it
\* raises ValueError
len_between(min_len, max_len, value) ==
    value # None => ~(len(value) < min_len \/ len(value) > max_len)

\* DateRange(start_date, end_date): attrs sets the fields; the class
\* declares no validator
DateRange(start_date, end_date) ==
    returned([start_date |-> start_date, end_date |-> end_date,
              version_key |-> CURRENT_VERSION])

DateRange_from_doc(doc) ==
    DateRange(fromisoformat(doc.startDate), fromisoformat(doc.endDate))

DateRange_to_request(self) ==
    [startDate |-> isoformat(self.start_date),
     endDate |-> isoformat(self.end_date)]

\* Column(ctype, expression)
Column(ctype, expression) ==
    [ctype |-> ctype, expression |-> expression, alias |-> None,
     version_key |-> CURRENT_VERSION]

\* the name of the member a plural section name stands for: upper-cased,
\* one trailing "S" stripped (uar.py:152-154, 193-195)
singular(type_name) ==
    LET up == upper(type_name) IN
    IF up[Len(up)] = "S" THEN SubSeq(up, 1, Len(up) - 1) ELSE up

Column_from_doc(ctype, src) ==
    LET found == Enum_getitem(ColumnType, singular(ctype)) IN
    IF found.exc # "" THEN found ELSE returned(Column(found.value, src))

Column_to_request(self) ==
    IF self.ctype = member(ColumnType, <<"D", "I", "M", "E", "N", "S", "I", "O", "N">>)
    THEN [name |-> "ga:" \o self.expression]
    ELSE IF self.ctype = member(ColumnType, <<"M", "E", "T", "R", "I", "C">>)
    THEN [expression |-> "ga:" \o self.expression]
    ELSE NotImplemented

\* Filter(ftype, operator, column, value)
Filter(ftype, operator, column, value) ==
    [ftype |-> ftype, operator |-> operator, column |-> column,
     value |-> value, version_key |-> CURRENT_VERSION]

\* str(self.value)
str_of(value) ==
    IF "int" \in DOMAIN value THEN [str |-> str(value.int)]
    ELSE IF "str" \in DOMAIN value THEN value
    ELSE [repr |-> value.list]

Filter_to_request(self) ==
    IF self.ftype = member(FilterType, <<"D", "I", "M", "E", "N", "S", "I", "O", "N">>)
    THEN [dimensionName |-> "ga:" \o self.column,
          not |-> self.operator.value.ua.negated,
          operator |-> self.operator.value.ua.op,
          expressions |-> IF self.operator = member(FilterOperator, "IN")
                          THEN self.value ELSE [list |-> <<self.value>>],
          caseSensitive |-> TRUE]
    ELSE IF self.ftype = member(FilterType, <<"M", "E", "T", "R", "I", "C">>)
    THEN [metricName |-> "ga:" \o self.column,
          not |-> self.operator.value.ua.negated,
          operator |-> self.operator.value.ua.op,
          comparisonValue |-> str_of(self.value)]
    ELSE NotImplemented

\* A filter expression is the sequence of its lexical tokens.  A token has
\* a kind ("identifier", "number", "string", "operator", "keyword",
\* "symbol", or "other" for text no element of the grammar matches), its
\* text, and for a literal the Python value it converts to.
lexical_token(kind, text, value) == [kind |-> kind, text |-> text, value |-> value]

\* pp.CaselessKeyword("IN") and the suppressed symbols (uar_types.py:116-118)
IN_keyword == lexical_token("keyword", "IN", None)

LPAR == lexical_token("symbol", "(", None)

RPAR == lexical_token("symbol", ")", None)

COMMA == lexical_token("symbol", ",", None)

\* the operator tokens of the two BINARY levels of the infix notation
\* (uar_types.py:128-129)
one_of == {"<", ">", "<=", ">=", "=", "==", "<>", "!="}

\* Expression.parse_string(expr)[0] for an expression of at most one
\* operator whose operands are identifiers, numbers and strings.  An
\* identifier is grouped (uar_types.py:122), a literal is its value; a
\* group is [group |-> items].  parse_string does not ask for the whole
\* string to be matched: when no operator with its right operand follows
\* the first term, the term alone is the result.
Expression_parse_string(expr) ==
    LET is_term(tok) == tok.kind \in {"identifier", "number", "string"}
        expr_term(tok) == IF tok.kind = "identifier"
                          THEN [group |-> <<tok.text>>] ELSE tok.value
        closes == {j \in 5..Len(expr) :
                      /\ j % 2 = 1
                      /\ expr[j] = RPAR
                      /\ \A k \in 4..(j - 1) :
                             IF k % 2 = 0 THEN is_term(expr[k]) ELSE expr[k] = COMMA}
    IN  IF expr = <<>> \/ ~is_term(expr[1]) THEN raise("ParseException")
        ELSE IF /\ Len(expr) >= 3
                /\ expr[2].kind = "operator"
                /\ expr[2].text \in one_of
                /\ is_term(expr[3])
        THEN returned([group |-> <<expr_term(expr[1]), expr[2].text,
                                   expr_term(expr[3])>>])
        ELSE IF Len(expr) >= 3 /\ expr[2] = IN_keyword /\ expr[3] = LPAR /\ closes # {}
        THEN LET j == CHOOSE j \in closes : \A k \in closes : j <= k IN
             returned([group |-> <<expr_term(expr[1]), "IN",
                                   [group |-> [k \in 1..((j - 3) \div 2) |->
                                                  expr_term(expr[2 * k + 2])]]>>])
        ELSE returned(expr_term(expr[1]))

\* Filter.from_doc(ftype, expr), for an expression that starts with an
\* identifier or a number.  parsed[0][0] of a lone identifier is its first
\* character and parsed[1] then raises IndexError; a number cannot be
\* subscripted.  list(parsed[2]) is the list of the items of the group.
Filter_from_doc(ftype, expr) ==
    LET result == Expression_parse_string(expr)
        parsed == result.value
        operator == AliasedEnum_get(FilterOperator, "expr", parsed.group[2])
        value == IF operator.value = member(FilterOperator, "IN")
                 THEN [list |-> parsed.group[3].group]
                 ELSE parsed.group[3]
        found == Enum_getitem(FilterType, singular(ftype))
    IN  IF result.exc # "" THEN result
        ELSE IF "group" \notin DOMAIN parsed THEN raise("TypeError")
        ELSE IF Len(parsed.group) = 1 THEN raise("IndexError")
        ELSE IF operator.exc # "" THEN operator
        ELSE IF found.exc # "" THEN found
        ELSE returned(Filter(found.value, operator.value,
                             parsed.group[1].group[1], value))

DEFAULT_PAGE_SIZE == 10000

\* UAQueryOptions(...) with every field given
UAQueryOptions(page_size, page_token, include_empty_rows, include_totals, include_value_ranges) ==
    [page_size |-> page_size, page_token |-> page_token,
     include_empty_rows |-> include_empty_rows,
     include_totals |-> include_totals,
     include_value_ranges |-> include_value_ranges,
     version_key |-> CURRENT_VERSION]

\* UAQueryOptions(): the field defaults
UAQueryOptions_defaults ==
    UAQueryOptions(DEFAULT_PAGE_SIZE, None, FALSE, FALSE, FALSE)

key_list ==
    <<(<<"p", "a", "g", "e", "S", "i", "z", "e">>),
      (<<"p", "a", "g", "e", "T", "o", "k", "e", "n">>),
      (<<"i", "n", "c", "l", "u", "d", "e", "E", "m", "p", "t", "y", "R", "o", "w", "s">>),
      (<<"i", "n", "c", "l", "u", "d", "e", "T", "o", "t", "a", "l", "s">>),
      (<<"i", "n", "c", "l", "u", "d", "e", "V", "a", "l", "u", "e", "R", "a", "n", "g", "e", "s">>)>>

\* UAQueryOptions.from_doc: the options the document gives (a key that is
\* absent gets None from .get and is filtered out), as keyword arguments
UAQueryOptions_from_doc(doc) ==
    IF "queryOptions" \notin DOMAIN doc THEN returned(UAQueryOptions_defaults)
    ELSE LET given == {i \in DOMAIN key_list :
                          join(key_list[i]) \in DOMAIN doc.queryOptions}
             kw(i) == join(camel_to_snake_case(key_list[i]))
             opts == [k \in {kw(i) : i \in given} |->
                         doc.queryOptions[join(key_list[
                             CHOOSE i \in given : kw(i) = k])]]
         IN  IF \E k \in DOMAIN opts : k \notin DOMAIN UAQueryOptions_defaults
             THEN raise("TypeError")
             ELSE returned(opts @@ UAQueryOptions_defaults)

\* mutant of UAQueryOptions_to_request: the include flags are passed on
\* under the hide names
UAQueryOptions_to_request_unnegated(self) ==
    LET opts == [pageSize |-> self.page_size,
                 includeEmptyRows |-> self.include_empty_rows,
                 hideTotals |-> self.include_totals,
                 hideValueRanges |-> self.include_value_ranges]
        pt == IF self.page_token # None
              THEN [pageToken |-> self.page_token] ELSE <<>>
    IN  pt @@ opts

UAQueryOptions_to_request(self) ==
    LET opts == [pageSize |-> self.page_size,
                 includeEmptyRows |-> self.include_empty_rows,
                 hideTotals |-> ~self.include_totals,
                 hideValueRanges |-> ~self.include_value_ranges]
        pt == IF self.page_token # None
              THEN [pageToken |-> self.page_token] ELSE <<>>
    IN  pt @@ opts

\* UARequestKey(view_id, date_ranges, sampling, segments, cohort): the
\* validators of date_ranges and segments run on the values set
UARequestKey(view_id, date_ranges, sampling, segments, cohort) ==
    IF ~len_between(1, 2, [tuple |-> date_ranges])
       \/ ~len_between(1, 4, segments)
    THEN raise("ValueError")
    ELSE returned([view_id |-> view_id, date_ranges |-> date_ranges,
                   sampling |-> sampling, segments |-> segments,
                   cohort |-> cohort, version_key |-> CURRENT_VERSION])

UARequestKey_from_doc(doc) ==
    LET view_id == int(doc.scope.viewId)
        parsed == [i \in DOMAIN doc.dateRanges |->
                      DateRange_from_doc(doc.dateRanges[i])]
        date_ranges == values_of(parsed)
        sampling ==
            IF "queryOptions" \in DOMAIN doc
               /\ "sampling" \in DOMAIN doc.queryOptions
            THEN Enum_getitem(SamplingLevel, doc.queryOptions.sampling)
            ELSE returned(member(SamplingLevel, "LARGE"))
    IN  IF first_exc(parsed) # "" THEN raise(first_exc(parsed))
        ELSE IF sampling.exc # "" THEN sampling
        ELSE UARequestKey(view_id, date_ranges, sampling.value, None, None)

UARequestKey_to_request(self) ==
    [viewId |-> str(self.view_id),
     dateRanges |-> [i \in DOMAIN self.date_ranges |->
                        DateRange_to_request(self.date_ranges[i])],
     samplingLevel |-> self.sampling.name]

\* the default of dimensions and of metrics: the columns of one type
\* (uar.py:300-306)
columns_of_type(columns, type_name) ==
    SelectSeq(columns, LAMBDA col : col.ctype = member(ColumnType, type_name))

\* UARequest(key, columns, filters, query_options): dimensions and metrics
\* take their defaults and the validators run on them
UARequest(key, columns, filters, query_options) ==
    LET dimensions == columns_of_type(columns, <<"D", "I", "M", "E", "N", "S", "I", "O", "N">>)
        metrics == columns_of_type(columns, <<"M", "E", "T", "R", "I", "C">>)
    IN  IF ~len_between(1, 7, [list |-> dimensions])
           \/ ~len_between(1, 10, [list |-> metrics])
        THEN raise("ValueError")
        ELSE returned([key |-> key, columns |-> columns, filters |-> filters,
                       query_options |-> query_options,
                       dimensions |-> dimensions, metrics |-> metrics,
                       version_key |-> CURRENT_VERSION])

\* flatlist(fn, key): fn mapped over the sections of doc[key], flattened;
\* the items are results.  chain.from_iterable takes a StopIteration that
\* fn raises inside a map for the end of that map: the section ends there
\* and nothing is raised; any other exception leaves from_doc.  The
\* arguments of cls(...) are evaluated once each, from left to right.
UARequest_from_doc(doc) ==
    LET until_raise(results) ==
            LET failed == {j \in DOMAIN results : results[j].exc # ""} IN
            IF failed = {} THEN results
            ELSE LET j == CHOOSE j \in failed : \A k \in failed : j <= k IN
                 IF results[j].exc = "StopIteration"
                 THEN SubSeq(results, 1, j - 1)
                 ELSE SubSeq(results, 1, j)
        flatlist(fn(_, _), sections) ==
            from_iterable([i \in DOMAIN sections |->
                CHOOSE yielded \in
                    {until_raise(mapped) :
                        mapped \in {[j \in DOMAIN sections[i][2] |->
                                        fn(sections[i][1], sections[i][2][j])]}} : TRUE])
        cls(key, columns, filters, query_options) ==
            LET results == <<key>> \o columns \o filters \o <<query_options>> IN
            IF first_exc(results) # "" THEN raise(first_exc(results))
            ELSE UARequest(key.value, values_of(columns),
                           IF "filters" \in DOMAIN doc
                           THEN [list |-> values_of(filters)] ELSE None,
                           query_options.value)
    IN  CHOOSE request \in
            {cls(key, columns, filters, query_options) :
                key \in {UARequestKey_from_doc(doc)},
                columns \in {flatlist(Column_from_doc, doc.columns)},
                filters \in {IF "filters" \in DOMAIN doc
                             THEN flatlist(Filter_from_doc, doc.filters)
                             ELSE <<>>},
                query_options \in {UAQueryOptions_from_doc(doc)}} : TRUE

\* mutant of build_filter_clause: the clause is emitted with no filters too
build_filter_clause_always(self, filter_type) ==
    LET of_type == IF self.filters = None THEN <<>>
                   ELSE SelectSeq(self.filters.list,
                                  LAMBDA f : f.ftype = filter_type)
        filters == [i \in DOMAIN of_type |-> Filter_to_request(of_type[i])]
        key == join(lower(filter_type.name)) \o "FilterClauses"
        value == [list |-> <<[operator |-> "AND", filters |-> filters]>>]
    IN  <<key, value>>

\* build_filter_clause of UARequest.to_request: <<key, value>>, the value
\* None when the request has no filter of the type
build_filter_clause(self, filter_type) ==
    LET of_type == IF self.filters = None THEN <<>>
                   ELSE SelectSeq(self.filters.list,
                                  LAMBDA f : f.ftype = filter_type)
        filters == [i \in DOMAIN of_type |-> Filter_to_request(of_type[i])]
        key == join(lower(filter_type.name)) \o "FilterClauses"
        value == [list |-> <<[operator |-> "AND", filters |-> filters]>>]
    IN  IF Len(filters) > 0 THEN <<key, value>> ELSE <<key, None>>

UARequest_to_request(self) ==
    LET cols == [dimensions |-> [i \in DOMAIN self.dimensions |->
                                    Column_to_request(self.dimensions[i])],
                 metrics |-> [i \in DOMAIN self.metrics |->
                                 Column_to_request(self.metrics[i])]]
        types == members(FilterType)
        clauses == [i \in DOMAIN types |-> build_filter_clause(self, types[i])]
        kept == {i \in DOMAIN clauses : clauses[i][2] # None}
        filters == [k \in {clauses[i][1] : i \in kept} |->
                       clauses[CHOOSE i \in kept : clauses[i][1] = k][2].list]
    IN  UAQueryOptions_to_request(self.query_options) @@ filters @@ cols
        @@ UARequestKey_to_request(self.key)

-----------------------------------------------------------------------------
(* uar.py: UARequestBatch.  data is the sequence of the <<key, requests>>  *)
(* items of the dict, in insertion order.                                  *)

\* UARequestBatch(data): attrs sets the field; the class declares no
\* validator (same_key is attached to no field)
UARequestBatch(data) == [data |-> data, version_key |-> CURRENT_VERSION]

\* the orders a set may be iterated in
orders(S) ==
    {order \in [1..Cardinality(S) -> S] :
        \A i, j \in DOMAIN order : order[i] = order[j] => i = j}

\* UARequestBatch.from_doc; keys is set(map(get_key, queries)) in the order
\* the set is iterated in
UARequestBatch_from_doc(docs, keys) ==
    LET parsed == [i \in DOMAIN docs |-> UARequest_from_doc(docs[i])]
        queries == values_of(parsed)
        get_requests_with_key(key) ==
            SelectSeq(queries, LAMBDA query : query.key = key)
    IN  IF first_exc(parsed) # "" THEN raise(first_exc(parsed))
        ELSE returned(UARequestBatch(
                 [k \in DOMAIN keys |-> <<keys[k], get_requests_with_key(keys[k])>>]))

\* the keys of the queries the documents parse to (empty when one raises)
keys_of(docs) ==
    LET parsed == [i \in DOMAIN docs |-> UARequest_from_doc(docs[i])] IN
    IF first_exc(parsed) # "" THEN {}
    ELSE {parsed[i].value.key : i \in DOMAIN docs}

\* self[key] of the UserDict
UserDict_getitem(self, key) ==
    self.data[CHOOSE i \in DOMAIN self.data : self.data[i][1] = key][2]

\* UARequestBatch.to_request with MAXSIZE = maxsize
UARequestBatch_to_request(self, maxsize) ==
    LET batch_to_request(batch) ==
            [reportRequests |-> [i \in DOMAIN batch |->
                                    UARequest_to_request(batch[i])]]
        produce_query_batches(queries) ==
            LET chunks == chunk(queries, maxsize) IN
            [c \in DOMAIN chunks |-> batch_to_request(chunks[c])]
    IN  from_iterable([k \in DOMAIN self.data |->
            produce_query_batches(UserDict_getitem(self, self.data[k][1]))])

-----------------------------------------------------------------------------
(* Inputs of the query model.                                              *)

\* "dimensions" and "metrics", the section names of a document
dimensions_section == <<"d", "i", "m", "e", "n", "s", "i", "o", "n", "s">>

metrics_section == <<"m", "e", "t", "r", "i", "c", "s">>

\* a document {scope, dateRanges, columns}
document(view, ranges, dims, mets) ==
    [scope |-> [viewId |-> view],
     dateRanges |-> ranges,
     columns |-> <<(<<dimensions_section, dims>>), (<<metrics_section, mets>>)>>]

\* a document with queryOptions
with_options(doc, options) ==
    [k \in DOMAIN doc \cup {"queryOptions"} |->
        IF k = "queryOptions" THEN options ELSE doc[k]]

FirstQuarter == [startDate |-> <<2022, 1, 1>>, endDate |-> <<2022, 3, 31>>]

SecondQuarter == [startDate |-> <<2022, 4, 1>>, endDate |-> <<2022, 6, 30>>]

February == [startDate |-> <<2020, 2, 1>>, endDate |-> <<2020, 2, 29>>]

\* the documents of src/tests/test_uar.py:419-465, the first two again with
\* queryOptions.sampling MEDIUM and DEFAULT, and a document with three date
\* ranges
BatchDocuments ==
    {document(<<1, 0, 1>>, <<FirstQuarter>>, <<"date">>, <<"sessions">>),
     document(<<1, 0, 1>>, <<FirstQuarter>>, <<"campaign">>, <<"pageviews">>),
     document(<<1, 0, 1>>, <<SecondQuarter>>, <<"date">>, <<"sessions">>),
     with_options(
         document(<<1, 0, 1>>, <<FirstQuarter>>, <<"date">>, <<"sessions">>),
         [sampling |-> "MEDIUM"]),
     with_options(
         document(<<1, 0, 1>>, <<FirstQuarter>>, <<"campaign">>, <<"pageviews">>),
         [sampling |-> "DEFAULT", pageSize |-> 50]),
     document(<<1, 0, 2>>, <<FirstQuarter, SecondQuarter, February>>,
              <<"date">>, <<"sessions">>)}

\* the sequences of at most k elements of S
RECURSIVE seqs_upto(_, _)
seqs_upto(S, k) ==
    IF k = 0 THEN {<<>>}
    ELSE LET shorter == seqs_upto(S, k - 1) IN
         shorter \cup {Append(q, x) : q \in {r \in shorter : Len(r) = k - 1}, x \in S}

\* the requests and keys a batch is constructed from directly, as in
\* src/tests/test_uar.py:467-501
DirectRequests ==
    {UARequest_from_doc(doc).value :
        doc \in {d \in BatchDocuments :
                    "queryOptions" \notin DOMAIN d
                    /\ UARequest_from_doc(d).exc = ""}}

DirectKeys == {r.key : r \in DirectRequests}

\* the dicts UARequestBatch is constructed on directly: one or two keys,
\* each with at most two requests
DirectData ==
    LET lists == seqs_upto(DirectRequests, 2) IN
    {<<(<<k, l>>)>> : k \in DirectKeys, l \in lists}
    \cup {<<(<<ks[1], l1>>), (<<ks[2], l2>>)>> :
            ks \in {kk \in DirectKeys \X DirectKeys : kk[1] # kk[2]},
            l1 \in lists, l2 \in lists}

-----------------------------------------------------------------------------
(* SpecBatch: a batch is parsed from documents, or constructed on a dict,  *)
(* and serialized, as in TestBuildUARequestBatch.                          *)

InitBatch ==
    /\ EngineIdle
    /\ MAXSIZE = 5
    /\ call = ""
    /\ args \in {[docs |-> docs] : docs \in seqs_upto(BatchDocuments, MaxDocs)}
                \cup {[data |-> data] : data \in DirectData}
    /\ obj = None
    /\ out = None
    /\ raised = ""

\* UARequestBatch.MAXSIZE = k (src/tests/test_uar.py:521)
SetMaxsize ==
    /\ call = ""
    /\ MAXSIZE = 5
    /\ \E k \in 1..MaxChunk : MAXSIZE' = k
    /\ UNCHANGED <<call, args, obj, out, raised>>
    /\ UNCHANGED engine_vars

\* UARequestBatch.from_doc(docs) returns
BatchFromDoc ==
    /\ call = ""
    /\ "docs" \in DOMAIN args
    /\ \E keys \in orders(keys_of(args.docs)) :
        LET r == UARequestBatch_from_doc(args.docs, keys) IN
        /\ r.exc = ""
        /\ obj' = r.value
    /\ call' = "from_doc"
    /\ UNCHANGED <<MAXSIZE, args, out, raised>>
    /\ UNCHANGED engine_vars

\* UARequestBatch.from_doc(docs) raises
BatchFromDocRaises ==
    /\ call = ""
    /\ "docs" \in DOMAIN args
    /\ UARequestBatch_from_doc(args.docs, <<>>).exc # ""
    /\ raised' = UARequestBatch_from_doc(args.docs, <<>>).exc
    /\ call' = "from_doc"
    /\ UNCHANGED <<MAXSIZE, args, obj, out>>
    /\ UNCHANGED engine_vars

\* UARequestBatch(data)
BatchConstruct ==
    /\ call = ""
    /\ "data" \in DOMAIN args
    /\ obj' = UARequestBatch(args.data)
    /\ call' = "UARequestBatch"
    /\ UNCHANGED <<MAXSIZE, args, out, raised>>
    /\ UNCHANGED engine_vars

\* batch.to_request
BatchToRequest ==
    /\ call \in {"from_doc", "UARequestBatch"}
    /\ obj # None
    /\ out' = returned(UARequestBatch_to_request(obj, MAXSIZE))
    /\ call' = "to_request"
    /\ UNCHANGED <<MAXSIZE, args, obj, raised>>
    /\ UNCHANGED engine_vars

NextBatch ==
    \/ SetMaxsize
    \/ BatchFromDoc
    \/ BatchFromDocRaises
    \/ BatchConstruct
    \/ BatchToRequest

SpecBatch == InitBatch /\ [][NextBatch]_vars

-----------------------------------------------------------------------------
(* Properties of UARequestBatch (SpecBatch).                               *)

\* the requests the batch holds under its k-th key, serialized
serialized(k) ==
    [i \in DOMAIN obj.data[k][2] |-> UARequest_to_request(obj.data[k][2][i])]

\* the reportRequests lists of elements from + 1 .. to of the output, one
\* after the other
concatenated(elements, from, to) ==
    from_iterable([i \in 1..(to - from) |-> elements[from + i].reportRequests])

(* C11: to_request emits, key by key, chunks of the key's requests: every  *)
(* chunk holds between 1 and MAXSIZE requests, no chunk mixes two keys,    *)
(* and the chunks of a key, concatenated in order, are the key's request   *)
(* list serialized; two requests under a key with MAXSIZE = 1 come out as  *)
(* two one-element reportRequests batches.                                 *)
C11_Chunks ==
    call = "to_request" =>
        LET elements == out.value
            K == Len(obj.data)
        IN  /\ \A e \in DOMAIN elements :
                   /\ DOMAIN elements[e] = {"reportRequests"}
                   /\ Len(elements[e].reportRequests) >= 1
                   /\ Len(elements[e].reportRequests) <= MAXSIZE
            /\ \E cut \in [0..K -> 0..Len(elements)] :
                   /\ cut[0] = 0
                   /\ cut[K] = Len(elements)
                   /\ \A k \in 1..K :
                          /\ cut[k - 1] <= cut[k]
                          /\ concatenated(elements, cut[k - 1], cut[k]) = serialized(k)
            /\ \A k \in 1..K :
                   MAXSIZE = 1 /\ Len(obj.data[k][2]) = 2 =>
                       \E e \in 1..(Len(elements) - 1) :
                           /\ elements[e] = [reportRequests |-> <<serialized(k)[1]>>]
                           /\ elements[e + 1] = [reportRequests |-> <<serialized(k)[2]>>]

\* a batch with two different requests under one key was serialized with
\* MAXSIZE = 1, after a key with one request
C11_Witness ==
    /\ call = "to_request"
    /\ MAXSIZE = 1
    /\ Len(obj.data) = 2
    /\ Len(obj.data[1][2]) = 1
    /\ Len(obj.data[2][2]) = 2
    /\ obj.data[2][2][1] # obj.data[2][2][2]
    /\ Len(out.value) = 3

(* C12: every element of the output of to_request is a KeyRequestPair      *)
(* (key, request) whose key is the RequestKey of every request serialized  *)
(* into the reportRequests list of its request.                            *)
C12_KeyRequestPairs ==
    call = "to_request" =>
        \A e \in DOMAIN out.value :
            LET pair == out.value[e] IN
            /\ DOMAIN pair = {"key", "request"}
            /\ \E k \in DOMAIN obj.data :
                   /\ pair.key = obj.data[k][1]
                   /\ \A q \in DOMAIN pair.request.reportRequests :
                          \E i \in DOMAIN obj.data[k][2] :
                              /\ obj.data[k][2][i].key = pair.key
                              /\ pair.request.reportRequests[q] = serialized(k)[i]

\* the queries the documents given to from_doc parse to
queries_of(docs) == [i \in DOMAIN docs |-> UARequest_from_doc(docs[i]).value]

(* C13: in every RequestBatch every Request stored under a key has that    *)
(* key; from_doc on valid documents yields a mapping in which each parsed  *)
(* Request appears exactly once, under its own key, the requests of a key  *)
(* in document order.                                                      *)
C13_OwnKey ==
    /\ obj # None =>
           \A k \in DOMAIN obj.data : \A i \in DOMAIN obj.data[k][2] :
               obj.data[k][2][i].key = obj.data[k][1]
    /\ (obj # None /\ "docs" \in DOMAIN args) =>
           LET queries == queries_of(args.docs) IN
           /\ \A k, l \in DOMAIN obj.data :
                  obj.data[k][1] = obj.data[l][1] => k = l
           /\ \A q \in DOMAIN queries :
                  \E k \in DOMAIN obj.data : obj.data[k][1] = queries[q].key
           /\ \A k \in DOMAIN obj.data :
                  \E at \in [DOMAIN obj.data[k][2] -> DOMAIN queries] :
                      /\ \A i, j \in DOMAIN at : i < j => at[i] < at[j]
                      /\ \A i \in DOMAIN at : obj.data[k][2][i] = queries[at[i]]
                      /\ \A q \in DOMAIN queries :
                             queries[q].key = obj.data[k][1] =>
                                 \E i \in DOMAIN at : at[i] = q

-----------------------------------------------------------------------------
(* SpecRequest: a key and a request are constructed from arguments, or a   *)
(* request is parsed from a document, and serialized.                      *)

DIMENSION == <<"D", "I", "M", "E", "N", "S", "I", "O", "N">>

METRIC == <<"M", "E", "T", "R", "I", "C">>

SEGMENT == <<"S", "E", "G", "M", "E", "N", "T">>

\* Segment(): the class has no field of its own
Segment == [version_key |-> CURRENT_VERSION]

\* k date ranges, month after month from 2022-01-01
ranges(k) ==
    [i \in 1..k |->
        DateRange(fromisoformat(<<2022, 1, 1>>) + 31 * (i - 1),
                  fromisoformat(<<2022, 1, 1>>) + 31 * (i - 1) + 30).value]

\* nd dimension columns followed by nm metric columns
columns(nd, nm) ==
    [i \in 1..nd |-> Column(member(ColumnType, DIMENSION), "dimension" \o ToString(i))]
    \o [i \in 1..nm |-> Column(member(ColumnType, METRIC), "metric" \o ToString(i))]

\* the filters of src/tests/test_uar.py:341-345 and a segment filter
FilterPool ==
    {Filter(member(FilterType, DIMENSION), member(FilterOperator, "EQ"),
            "source", [str |-> "google"]),
     Filter(member(FilterType, DIMENSION), member(FilterOperator, "IN"),
            "medium", [list |-> <<[str |-> "cpc"], [str |-> "ppc"]>>]),
     Filter(member(FilterType, METRIC), member(FilterOperator, "GTE"),
            "sessions", [int |-> 100]),
     Filter(member(FilterType, SEGMENT), member(FilterOperator, "EQ"),
            "segment", [str |-> "returning"])}

OptionsPool ==
    {UAQueryOptions(page_size, page_token, include_empty_rows, include_totals,
                    include_value_ranges) :
        page_size \in {DEFAULT_PAGE_SIZE, 50},
        page_token \in {None, [str |-> <<"4", "2">>]},
        include_empty_rows \in BOOLEAN,
        include_totals \in BOOLEAN,
        include_value_ranges \in BOOLEAN}

\* the arguments of UARequestKey(...) and UARequest(...)
arguments(date_ranges, segments, cols, filters, query_options) ==
    [view_id |-> 101, date_ranges |-> date_ranges,
     sampling |-> member(SamplingLevel, "LARGE"), segments |-> segments,
     columns |-> cols, filters |-> filters, query_options |-> query_options]

\* arguments of every length up to the bounds, without filters
LengthArguments ==
    {arguments(ranges(nr), segments, columns(nd, nm), None, UAQueryOptions_defaults) :
        nr \in 0..MaxRanges,
        segments \in {None} \cup {[tuple |-> [i \in 1..k |-> Segment]] : k \in 0..MaxSegments},
        nd \in 0..MaxDims,
        nm \in 0..MaxMets}

\* arguments with every list of filters and every choice of options
FilterArguments ==
    {arguments(ranges(1), None, columns(1, 1), filters, query_options) :
        filters \in {None} \cup {[list |-> l] : l \in seqs_upto(FilterPool, MaxFilters)},
        query_options \in OptionsPool}

\* the document of src/tests/test_uar.py:109-132 with each sampling name,
\* with a name SamplingLevel does not declare, and without queryOptions
RequestDocuments ==
    LET doc == document(<<1, 6, 6, 1, 9, 7, 5, 0>>,
                        <<[startDate |-> <<2022, 2, 1>>, endDate |-> <<2022, 2, 28>>],
                          [startDate |-> <<2022, 1, 1>>, endDate |-> <<2022, 1, 31>>]>>,
                        <<"medium", "source">>, <<"sessions">>)
    IN  {doc}
        \cup {with_options(doc, [sampling |-> name, pageSize |-> 50,
                                 includeEmptyRows |-> FALSE,
                                 includeTotals |-> totals,
                                 includeValueRanges |-> TRUE]) :
                name \in {"SMALL", "DEFAULT", "MEDIUM", "LARGE", "FASTER"},
                totals \in BOOLEAN}
        \cup {with_options(doc, [pageSize |-> 50])}

InitRequest ==
    /\ EngineIdle
    /\ MAXSIZE = 5
    /\ call = ""
    /\ args \in LengthArguments \cup FilterArguments
                \cup {[doc |-> doc] : doc \in RequestDocuments}
    /\ obj = None
    /\ out = None
    /\ raised = ""

\* UARequestKey(view_id, date_ranges, sampling, segments) returns
KeyConstruct ==
    /\ call = ""
    /\ "view_id" \in DOMAIN args
    /\ LET r == UARequestKey(args.view_id, args.date_ranges, args.sampling,
                             args.segments, None) IN
        /\ r.exc = ""
        /\ obj' = r.value
    /\ call' = "UARequestKey"
    /\ UNCHANGED <<MAXSIZE, args, out, raised>>
    /\ UNCHANGED engine_vars

\* UARequestKey(...) raises
KeyRaises ==
    /\ call = ""
    /\ "view_id" \in DOMAIN args
    /\ LET r == UARequestKey(args.view_id, args.date_ranges, args.sampling,
                             args.segments, None) IN
        /\ r.exc # ""
        /\ raised' = r.exc
    /\ call' = "UARequestKey"
    /\ UNCHANGED <<MAXSIZE, args, obj, out>>
    /\ UNCHANGED engine_vars

\* UARequest(key, columns, filters=..., query_options=...) returns
RequestConstruct ==
    /\ call = "UARequestKey"
    /\ raised = ""
    /\ LET r == UARequest(obj, args.columns, args.filters, args.query_options) IN
        /\ r.exc = ""
        /\ obj' = r.value
    /\ call' = "UARequest"
    /\ UNCHANGED <<MAXSIZE, args, out, raised>>
    /\ UNCHANGED engine_vars

\* UARequest(...) raises
RequestRaises ==
    /\ call = "UARequestKey"
    /\ raised = ""
    /\ LET r == UARequest(obj, args.columns, args.filters, args.query_options) IN
        /\ r.exc # ""
        /\ raised' = r.exc
    /\ call' = "UARequest"
    /\ UNCHANGED <<MAXSIZE, args, obj, out>>
    /\ UNCHANGED engine_vars

\* UARequest.from_doc(doc) returns
RequestFromDoc ==
    /\ call = ""
    /\ "doc" \in DOMAIN args
    /\ UARequest_from_doc(args.doc).exc = ""
    /\ obj' = UARequest_from_doc(args.doc).value
    /\ call' = "UARequest.from_doc"
    /\ UNCHANGED <<MAXSIZE, args, out, raised>>
    /\ UNCHANGED engine_vars

\* UARequest.from_doc(doc) raises
RequestFromDocRaises ==
    /\ call = ""
    /\ "doc" \in DOMAIN args
    /\ UARequest_from_doc(args.doc).exc # ""
    /\ raised' = UARequest_from_doc(args.doc).exc
    /\ call' = "UARequest.from_doc"
    /\ UNCHANGED <<MAXSIZE, args, obj, out>>
    /\ UNCHANGED engine_vars

\* request.to_request
RequestToRequest ==
    /\ call \in {"UARequest", "UARequest.from_doc"}
    /\ raised = ""
    /\ out' = UARequest_to_request(obj)
    /\ call' = "UARequest.to_request"
    /\ UNCHANGED <<MAXSIZE, args, obj, raised>>
    /\ UNCHANGED engine_vars

\* request.query_options.to_request
OptionsToRequest ==
    /\ call \in {"UARequest", "UARequest.from_doc"}
    /\ raised = ""
    /\ out' = UAQueryOptions_to_request(obj.query_options)
    /\ call' = "UAQueryOptions.to_request"
    /\ UNCHANGED <<MAXSIZE, args, obj, raised>>
    /\ UNCHANGED engine_vars

\* request.key.to_request
KeyToRequest ==
    /\ call \in {"UARequest", "UARequest.from_doc"}
    /\ raised = ""
    /\ out' = UARequestKey_to_request(obj.key)
    /\ call' = "UARequestKey.to_request"
    /\ UNCHANGED <<MAXSIZE, args, obj, raised>>
    /\ UNCHANGED engine_vars

NextRequestModel ==
    \/ KeyConstruct
    \/ KeyRaises
    \/ RequestConstruct
    \/ RequestRaises
    \/ RequestFromDoc
    \/ RequestFromDocRaises
    \/ RequestToRequest
    \/ OptionsToRequest
    \/ KeyToRequest

SpecRequest == InitRequest /\ [][NextRequestModel]_vars

-----------------------------------------------------------------------------
(* Properties of UARequest, UARequestKey and UAQueryOptions (SpecRequest). *)

\* the filters of one kind the request obj holds, in order
filters_of_kind(kind) ==
    IF obj.filters = None THEN <<>>
    ELSE SelectSeq(obj.filters.list,
                   LAMBDA f : f.ftype = member(FilterType, kind))

\* the output has the clause named key exactly when the request has a
\* filter of the kind, and then it is one AND clause of these filters,
\* serialized, in order
clause_of_kind(key, kind) ==
    LET of_kind == filters_of_kind(kind) IN
    /\ key \in DOMAIN out <=> Len(of_kind) > 0
    /\ key \in DOMAIN out =>
           /\ Len(out[key]) = 1
           /\ DOMAIN out[key][1] = {"operator", "filters"}
           /\ out[key][1].operator = "AND"
           /\ Len(out[key][1].filters) = Len(of_kind)
           /\ \A i \in DOMAIN of_kind :
                  out[key][1].filters[i] = Filter_to_request(of_kind[i])

(* C14: for each filter kind, UARequest.to_request has the key             *)
(* "<kind>FilterClauses" if and only if the request has a Filter of the    *)
(* kind, and then its value is one AND clause holding the serialized       *)
(* filters of the kind in order; no empty clause array and no empty        *)
(* filters list is emitted.                                                *)
C14_FilterClauses ==
    call = "UARequest.to_request" =>
        /\ clause_of_kind("dimensionFilterClauses", DIMENSION)
        /\ clause_of_kind("metricFilterClauses", METRIC)
        /\ clause_of_kind("segmentFilterClauses", SEGMENT)
        /\ \A key \in DOMAIN out :
               key \in {"dimensionFilterClauses", "metricFilterClauses",
                        "segmentFilterClauses"} =>
                   /\ out[key] # <<>>
                   /\ \A c \in DOMAIN out[key] : out[key][c].filters # <<>>

\* a request with two different dimension filters and no metric filter was
\* serialized: one clause, the dimension clause, with both filters
C14_Witness ==
    /\ call = "UARequest.to_request"
    /\ obj.filters # None
    /\ Len(obj.filters.list) = 2
    /\ obj.filters.list[1].ftype = member(FilterType, DIMENSION)
    /\ obj.filters.list[2].ftype = member(FilterType, DIMENSION)
    /\ obj.filters.list[1] # obj.filters.list[2]
    /\ "dimensionFilterClauses" \in DOMAIN out
    /\ "metricFilterClauses" \notin DOMAIN out
    /\ Len(out["dimensionFilterClauses"][1].filters) = 2

(* C15: UAQueryOptions.to_request yields hideTotals = not include_totals   *)
(* and hideValueRanges = not include_value_ranges, and has pageToken if    *)
(* and only if page_token is set.                                          *)
C15_HideFlags ==
    call = "UAQueryOptions.to_request" =>
        /\ out.hideTotals = ~obj.query_options.include_totals
        /\ out.hideValueRanges = ~obj.query_options.include_value_ranges
        /\ "pageToken" \in DOMAIN out <=> obj.query_options.page_token # None
        /\ "pageToken" \in DOMAIN out =>
               out.pageToken = obj.query_options.page_token

\* options with include_totals set, include_value_ranges not set and a
\* page token were serialized
C15_Witness ==
    /\ call = "UAQueryOptions.to_request"
    /\ obj.query_options.include_totals
    /\ ~obj.query_options.include_value_ranges
    /\ obj.query_options.page_token # None
    /\ ~out.hideTotals
    /\ out.hideValueRanges
    /\ "pageToken" \in DOMAIN out

\* the columns of the arguments that have the type named
given_columns(type_name) ==
    SelectSeq(args.columns, LAMBDA col : col.ctype = member(ColumnType, type_name))

(* C16: the construction of a RequestKey or Request fails with a           *)
(* validation error, and yields no object, whenever a length bound is      *)
(* violated: date ranges outside 1..2, segments (when given) outside       *)
(* 1..4, derived dimensions outside 1..7, derived metrics outside 1..10;   *)
(* otherwise the object holds the lists in full.                           *)
C16_LengthBounds ==
    /\ (call = "UARequestKey" /\ "view_id" \in DOMAIN args) =>
           LET violated ==
                   \/ Len(args.date_ranges) \notin 1..2
                   \/ args.segments # None /\ Len(args.segments.tuple) \notin 1..4
           IN  IF violated
               THEN raised = "ValueError" /\ obj = None
               ELSE /\ raised = ""
                    /\ obj.date_ranges = args.date_ranges
                    /\ obj.segments = args.segments
    /\ (call = "UARequest" /\ "view_id" \in DOMAIN args) =>
           LET violated ==
                   \/ Len(given_columns(DIMENSION)) \notin 1..7
                   \/ Len(given_columns(METRIC)) \notin 1..10
           IN  IF violated
               THEN raised = "ValueError" /\ "columns" \notin DOMAIN obj
               ELSE /\ raised = ""
                    /\ obj.dimensions = given_columns(DIMENSION)
                    /\ obj.metrics = given_columns(METRIC)
                    /\ obj.columns = args.columns

\* a request with eight dimensions and ten metrics was refused
C16_Witness ==
    /\ call = "UARequest"
    /\ "view_id" \in DOMAIN args
    /\ Len(given_columns(DIMENSION)) = 8
    /\ Len(given_columns(METRIC)) = 10
    /\ raised = "ValueError"
    /\ "columns" \notin DOMAIN obj

-----------------------------------------------------------------------------
(* SpecDateRange: a DateRange is constructed, or parsed, and used as the   *)
(* sequence of its days, as in TestDateRangeUtilities.                     *)

\* len(self), self[index] and date in self.  The class (uar.py:105-122)
\* declares the fields start_date and end_date and the methods from_doc
\* and to_request, and attrs adds no __len__, __getitem__, __contains__ or
\* __iter__ to it: each of the three raises TypeError.
DateRange_len(self) == raise("TypeError")

DateRange_getitem(self, index) == raise("TypeError")

DateRange_contains(self, date) == raise("TypeError")

InitDateRange ==
    /\ EngineIdle
    /\ MAXSIZE = 5
    /\ call = ""
    /\ args \in [start_date : Days, end_date : Days,
                 via : {"DateRange", "from_doc"},
                 index : (-MaxIndex)..MaxIndex, date : Days]
    /\ obj = None
    /\ out = None
    /\ raised = ""

\* DateRange(start_date, end_date)
DateRangeConstruct ==
    /\ call = ""
    /\ args.via = "DateRange"
    /\ LET r == DateRange(args.start_date, args.end_date) IN
        /\ raised' = r.exc
        /\ obj' = r.value
    /\ call' = "DateRange"
    /\ UNCHANGED <<MAXSIZE, args, out>>
    /\ UNCHANGED engine_vars

\* DateRange.from_doc({startDate, endDate})
DateRangeFromDoc ==
    /\ call = ""
    /\ args.via = "from_doc"
    /\ LET r == DateRange_from_doc([startDate |-> isoformat(args.start_date),
                                    endDate |-> isoformat(args.end_date)]) IN
        /\ raised' = r.exc
        /\ obj' = r.value
    /\ call' = "from_doc"
    /\ UNCHANGED <<MAXSIZE, args, out>>
    /\ UNCHANGED engine_vars

\* len(date_range)
DateRangeLen ==
    /\ call \in {"DateRange", "from_doc"}
    /\ obj # None
    /\ raised' = DateRange_len(obj).exc
    /\ out' = DateRange_len(obj).value
    /\ call' = "len"
    /\ UNCHANGED <<MAXSIZE, args, obj>>
    /\ UNCHANGED engine_vars

\* date_range[index]
DateRangeGetItem ==
    /\ call \in {"DateRange", "from_doc"}
    /\ obj # None
    /\ raised' = DateRange_getitem(obj, args.index).exc
    /\ out' = DateRange_getitem(obj, args.index).value
    /\ call' = "getitem"
    /\ UNCHANGED <<MAXSIZE, args, obj>>
    /\ UNCHANGED engine_vars

\* date in date_range
DateRangeContains ==
    /\ call \in {"DateRange", "from_doc"}
    /\ obj # None
    /\ raised' = DateRange_contains(obj, args.date).exc
    /\ out' = DateRange_contains(obj, args.date).value
    /\ call' = "contains"
    /\ UNCHANGED <<MAXSIZE, args, obj>>
    /\ UNCHANGED engine_vars

\* date_range.to_request
DateRangeToRequest ==
    /\ call \in {"DateRange", "from_doc"}
    /\ obj # None
    /\ out' = DateRange_to_request(obj)
    /\ call' = "to_request"
    /\ UNCHANGED <<MAXSIZE, args, obj, raised>>
    /\ UNCHANGED engine_vars

NextDateRange ==
    \/ DateRangeConstruct
    \/ DateRangeFromDoc
    \/ DateRangeLen
    \/ DateRangeGetItem
    \/ DateRangeContains
    \/ DateRangeToRequest

SpecDateRange == InitDateRange /\ [][NextDateRange]_vars

(* C17: every DateRange that exists has start <= end: constructing one,    *)
(* directly or through from_doc, with a start date after the end date is   *)
(* rejected.                                                               *)
C17_StartBeforeEnd ==
    /\ obj # None => obj.start_date <= obj.end_date
    /\ (call \in {"DateRange", "from_doc"} /\ args.start_date > args.end_date) =>
           raised # "" /\ obj = None

(* C18: a DateRange is the sequence of its days: its length is            *)
(* (end - start) in days plus 1, index 0 is the start date, index -k is    *)
(* the k-th day from the end, an index outside the range is an error, and  *)
(* a date is in it exactly when start <= date <= end.                      *)
C18_DaySequence ==
    LET length == obj.end_date - obj.start_date + 1 IN
    /\ call = "len" => raised = "" /\ out = [int |-> length]
    /\ call = "getitem" =>
           IF args.index >= length \/ args.index < -length
           THEN raised = "IndexError"
           ELSE /\ raised = ""
                /\ out = [date |-> IF args.index >= 0
                                   THEN obj.start_date + args.index
                                   ELSE obj.end_date + 1 + args.index]
    /\ call = "contains" =>
           /\ raised = ""
           /\ out = [bool |-> obj.start_date <= args.date /\ args.date <= obj.end_date]

-----------------------------------------------------------------------------
(* C19, under SpecRequest.                                                 *)

\* the key of src/tests/test_uar.py:135-142, built with SamplingLevel.DEFAULT
key_with_default ==
    UARequestKey(16619750,
                 <<DateRange(fromisoformat(<<2022, 2, 1>>),
                             fromisoformat(<<2022, 2, 28>>)).value,
                   DateRange(fromisoformat(<<2022, 1, 1>>),
                             fromisoformat(<<2022, 1, 31>>)).value>>,
                 member(SamplingLevel, "DEFAULT"), None, None).value

\* the document parsed names the sampling level MEDIUM
sampling_is_medium ==
    /\ "doc" \in DOMAIN args
    /\ "queryOptions" \in DOMAIN args.doc
    /\ "sampling" \in DOMAIN args.doc.queryOptions
    /\ args.doc.queryOptions.sampling = "MEDIUM"

(* C19: SamplingLevel.DEFAULT and SamplingLevel.MEDIUM are one member,     *)
(* named "DEFAULT"; a document whose queryOptions.sampling is "MEDIUM"     *)
(* parses to a RequestKey equal to one built with DEFAULT and serializes   *)
(* with samplingLevel "DEFAULT".                                           *)
C19_MediumIsDefault ==
    /\ member(SamplingLevel, "DEFAULT") = member(SamplingLevel, "MEDIUM")
    /\ member(SamplingLevel, "MEDIUM").name = "DEFAULT"
    /\ (sampling_is_medium /\ call # "") =>
           /\ raised = ""
           /\ obj.key = key_with_default
           /\ call \in {"UARequestKey.to_request", "UARequest.to_request"} =>
                  out.samplingLevel = "DEFAULT"

\* the key of a document with sampling MEDIUM was serialized
C19_Witness ==
    /\ sampling_is_medium
    /\ call = "UARequestKey.to_request"
    /\ obj.key.sampling.value = 2
    /\ out.samplingLevel = "DEFAULT"

-----------------------------------------------------------------------------
(* SpecEnum: AliasedEnum.get on FilterOperator, on the TestEnum of         *)
(* src/tests/test_uar.py:55-58 and on generated classes.                   *)

TestEnum ==
    <<[name |-> "EQ", value |-> AliasedValue("==", UAFilterLiteral("EXACT", FALSE))],
      [name |-> "NEQ", value |-> AliasedValue("!=", UAFilterLiteral("EXACT", TRUE))],
      [name |-> "CONTAINS", value |-> AliasedValue("*=", UAFilterLiteral("PARTIAL", FALSE))]>>

\* the values the declarations of a generated class are drawn from: they
\* share expr tokens and ua literals
SharedValues ==
    {AliasedValue(expr, ua) :
        expr \in {"==", "!="},
        ua \in {UAFilterLiteral("EXACT", FALSE), UAFilterLiteral("EXACT", TRUE)}}

\* classes of at most MaxMembers declarations M1, M2, ... over SharedValues
GeneratedEnums ==
    {[i \in DOMAIN vals |-> [name |-> "M" \o ToString(i), value |-> vals[i]]] :
        vals \in seqs_upto(SharedValues, MaxMembers) \ {<<>>}}

EnumClasses == {FilterOperator, TestEnum} \cup GeneratedEnums

\* the expr tokens and the ua literals get is asked for
ExprTokens == {"==", "!=", "IN", ">", ">=", "*=", "<"}

UALiterals ==
    {UAFilterLiteral(op, negated) :
        op \in {"EXACT", "IN_LIST", "GREATER_THAN", "LESS_THAN", "PARTIAL"},
        negated \in BOOLEAN}

InitEnum ==
    /\ EngineIdle
    /\ MAXSIZE = 5
    /\ call = ""
    /\ args \in {[cls |-> cls, key_type |-> "expr", key_val |-> token] :
                    cls \in EnumClasses, token \in ExprTokens}
                \cup {[cls |-> cls, key_type |-> "ua", key_val |-> literal] :
                    cls \in EnumClasses, literal \in UALiterals}
    /\ obj = None
    /\ out = None
    /\ raised = ""

\* cls.get(key_type, key_val) returns a member
EnumGet ==
    /\ call = ""
    /\ LET r == AliasedEnum_get(args.cls, args.key_type, args.key_val) IN
        /\ r.exc = ""
        /\ out' = r.value
    /\ call' = "get"
    /\ UNCHANGED <<MAXSIZE, args, obj, raised>>
    /\ UNCHANGED engine_vars

\* cls.get(key_type, key_val) finds no member: next raises StopIteration
EnumGetRaises ==
    /\ call = ""
    /\ LET r == AliasedEnum_get(args.cls, args.key_type, args.key_val) IN
        /\ r.exc # ""
        /\ raised' = r.exc
    /\ call' = "get"
    /\ UNCHANGED <<MAXSIZE, args, obj, out>>
    /\ UNCHANGED engine_vars

NextEnum == EnumGet \/ EnumGetRaises

SpecEnum == InitEnum /\ [][NextEnum]_vars

\* the declarations of the class asked whose value matches the key
matching ==
    {i \in DOMAIN args.cls : args.cls[i].value[args.key_type] = args.key_val}

(* C20: AliasedEnum.get(key_type, key_val) returns the first member in     *)
(* declaration order whose value for the representation equals key_val;    *)
(* on FilterOperator the lookup is a bijection in both representations:    *)
(* get("expr", m.value.expr) = m and get("ua", m.value.ua) = m for every   *)
(* member m.                                                               *)
C20_FirstMatch ==
    /\ (call = "get" /\ raised = "") =>
           \E i \in matching :
               /\ \A j \in matching : i <= j
               /\ out = args.cls[i]
    /\ (call = "get" /\ raised # "") => matching = {}
    /\ \A i, j \in DOMAIN FilterOperator :
           i # j => /\ FilterOperator[i].value.expr # FilterOperator[j].value.expr
                    /\ FilterOperator[i].value.ua # FilterOperator[j].value.ua
    /\ (call = "get" /\ args.cls = FilterOperator) =>
           \A m \in DOMAIN FilterOperator :
               FilterOperator[m].value[args.key_type] = args.key_val =>
                   out = FilterOperator[m]

\* get was asked for a token that two members of a class share and
\* returned the first of them
C20_Witness ==
    /\ call = "get"
    /\ raised = ""
    /\ Cardinality(matching) >= 2
    /\ Len(members(args.cls)) = Len(args.cls)
    /\ out = args.cls[1]

-----------------------------------------------------------------------------
(* SpecFilter: Filter.from_doc on filter expressions with every operator   *)
(* token of the grammar, and on malformed ones.                            *)

numeric_literal(k) == lexical_token("number", "", [int |-> k])

string_literal(s) == lexical_token("string", "", [str |-> s])

obj_ref(name) == lexical_token("identifier", name, None)

\* an operator token; "~" is text the grammar has no operator for
operator_token(text) ==
    lexical_token(IF text \in one_of THEN "operator" ELSE "other", text, None)

\* the items of a list, delimited by commas
delimited_list(items) ==
    [k \in 1..(2 * Len(items) - 1) |->
        IF k % 2 = 1 THEN items[(k + 1) \div 2] ELSE COMMA]

\* filter expressions: column, operator, literal with every operator token;
\* IN lists of 1..MaxItems strings; and expressions without an operand,
\* without an operator, with an unclosed list, or starting with an operator
FilterExpressions ==
    LET cols == {obj_ref("source"), obj_ref("sessions")}
        literals == {string_literal("google"), numeric_literal(100)}
        items == {string_literal("cpc"), string_literal("ppc")}
    IN  {<<col, operator_token(text), lit>> :
            col \in cols, text \in one_of \cup {"~"}, lit \in literals}
        \cup {<<col, IN_keyword, LPAR>> \o delimited_list(list) \o <<RPAR>> :
                col \in cols, list \in seqs_upto(items, MaxItems) \ {<<>>}}
        \cup {<<col>> : col \in cols}
        \cup {<<col, operator_token("==")>> : col \in cols}
        \cup {<<col, IN_keyword, LPAR, lit>> : col \in cols, lit \in items}
        \cup {<<operator_token("=="), lit>> : lit \in literals}
        \cup {<<numeric_literal(100)>>}

\* the kind tags from_doc is given: the section names of a document, a
\* singular, and a name FilterType does not declare
FilterKinds ==
    {dimensions_section, metrics_section,
     <<"s", "e", "g", "m", "e", "n", "t">>, <<"r", "o", "w", "s">>}

InitFilter ==
    /\ EngineIdle
    /\ MAXSIZE = 5
    /\ call = ""
    /\ args \in [ftype : FilterKinds, expr : FilterExpressions]
    /\ obj = None
    /\ out = None
    /\ raised = ""

\* Filter.from_doc(ftype, expr) returns
FilterFromDoc ==
    /\ call = ""
    /\ LET r == Filter_from_doc(args.ftype, args.expr) IN
        /\ r.exc = ""
        /\ obj' = r.value
    /\ call' = "Filter.from_doc"
    /\ UNCHANGED <<MAXSIZE, args, out, raised>>
    /\ UNCHANGED engine_vars

\* Filter.from_doc(ftype, expr) raises
FilterFromDocRaises ==
    /\ call = ""
    /\ LET r == Filter_from_doc(args.ftype, args.expr) IN
        /\ r.exc # ""
        /\ raised' = r.exc
    /\ call' = "Filter.from_doc"
    /\ UNCHANGED <<MAXSIZE, args, obj, out>>
    /\ UNCHANGED engine_vars

\* filter.to_request
FilterToRequest ==
    /\ call = "Filter.from_doc"
    /\ obj # None
    /\ out' = Filter_to_request(obj)
    /\ call' = "Filter.to_request"
    /\ UNCHANGED <<MAXSIZE, args, obj, raised>>
    /\ UNCHANGED engine_vars

NextFilter == FilterFromDoc \/ FilterFromDocRaises \/ FilterToRequest

SpecFilter == InitFilter /\ [][NextFilter]_vars

\* the expression given is column, operator token of the grammar, operand
\* (or column IN list), and the kind tag names a filter type
accepted_by_grammar ==
    /\ Expression_parse_string(args.expr).exc = ""
    /\ "group" \in DOMAIN Expression_parse_string(args.expr).value
    /\ Len(Expression_parse_string(args.expr).value.group) = 3
    /\ args.expr[2].text \in one_of \cup {"IN"}
    /\ Enum_getitem(FilterType, singular(args.ftype)).exc = ""

(* C21: for every operator token the filter grammar accepts (<, >, <=, >=, *)
(* =, ==, <>, !=, IN), Filter.from_doc returns a Filter whose operator is  *)
(* the FilterOperator aliased to the token, or fails with                  *)
(* UnknownOperatorError; no other error leaves it for an operator token.   *)
C21_OperatorOrUnknown ==
    (call = "Filter.from_doc" /\ accepted_by_grammar) =>
        \/ raised = "" /\ obj.operator.value.expr = args.expr[2].text
        \/ raised = "UnknownOperatorError"

-----------------------------------------------------------------------------
(* SpecCase: the case conversions applied to a string, and one to the      *)
(* result of the other.                                                    *)

\* the characters the strings are made of
CaseAlphabet == {"a", "z", "B", "Z", "_"}

InitCase ==
    /\ EngineIdle
    /\ MAXSIZE = 5
    /\ call = ""
    /\ args \in {[instr |-> instr] : instr \in seqs_upto(CaseAlphabet, MaxChars)}
    /\ obj = None
    /\ out = None
    /\ raised = ""

\* camel_to_snake_case(instr)
CamelToSnake ==
    /\ call = ""
    /\ obj' = [str |-> camel_to_snake_case(args.instr)]
    /\ call' = "camel_to_snake_case"
    /\ UNCHANGED <<MAXSIZE, args, out, raised>>
    /\ UNCHANGED engine_vars

\* snake_to_camel_case(instr)
SnakeToCamel ==
    /\ call = ""
    /\ obj' = [str |-> snake_to_camel_case(args.instr)]
    /\ call' = "snake_to_camel_case"
    /\ UNCHANGED <<MAXSIZE, args, out, raised>>
    /\ UNCHANGED engine_vars

\* snake_to_camel_case(camel_to_snake_case(instr))
SnakeToCamelBack ==
    /\ call = "camel_to_snake_case"
    /\ out' = [str |-> snake_to_camel_case(obj.str)]
    /\ call' = "snake_to_camel_case(camel_to_snake_case)"
    /\ UNCHANGED <<MAXSIZE, args, obj, raised>>
    /\ UNCHANGED engine_vars

\* camel_to_snake_case(snake_to_camel_case(instr))
CamelToSnakeBack ==
    /\ call = "snake_to_camel_case"
    /\ out' = [str |-> camel_to_snake_case(obj.str)]
    /\ call' = "camel_to_snake_case(snake_to_camel_case)"
    /\ UNCHANGED <<MAXSIZE, args, obj, raised>>
    /\ UNCHANGED engine_vars

NextCase == CamelToSnake \/ SnakeToCamel \/ SnakeToCamelBack \/ CamelToSnakeBack

SpecCase == InitCase /\ [][NextCase]_vars

\* the positions of s that hold a character of the alphabet
positions_in(s, alphabet) ==
    {i \in DOMAIN s : \E k \in DOMAIN alphabet : alphabet[k] = s[i]}

\* s is made of ASCII letters only
letters_only(s) ==
    positions_in(s, ascii_lowercase) \cup positions_in(s, ascii_uppercase) = DOMAIN s

(* C22: snake_to_camel_case(camel_to_snake_case(x)) = x for every x made   *)
(* of ASCII lowercase and uppercase letters (so with no leading            *)
(* underscore).                                                            *)
C22_CamelRoundTrip ==
    (call = "snake_to_camel_case(camel_to_snake_case)" /\ letters_only(args.instr)) =>
        out.str = args.instr

\* a string with two uppercase letters in a row went to snake case, where
\* it is longer, and came back
C22_Witness ==
    /\ call = "snake_to_camel_case(camel_to_snake_case)"
    /\ letters_only(args.instr)
    /\ \E i \in 1..(Len(args.instr) - 1) :
           {i, i + 1} \subseteq positions_in(args.instr, ascii_uppercase)
    /\ Len(obj.str) = Len(args.instr) + Cardinality(positions_in(args.instr, ascii_uppercase))
    /\ out.str = args.instr

(* C23 (as amended): camel_to_snake_case(snake_to_camel_case(y)) = y for   *)
(* every y made of ASCII lowercase letters and underscores, wherever the   *)
(* underscores are.                                                        *)
C23_SnakeRoundTrip ==
    (call = "camel_to_snake_case(snake_to_camel_case)"
        /\ positions_in(args.instr, ascii_uppercase) = {}) =>
        out.str = args.instr

\* a snake case string with an underscore before a letter went to camel
\* case, where it is shorter, and came back
C23_Witness ==
    /\ call = "camel_to_snake_case(snake_to_camel_case)"
    /\ positions_in(args.instr, ascii_uppercase) = {}
    /\ positions_in(args.instr, ascii_lowercase) # {}
    /\ args.instr[1] # "_"
    /\ Len(obj.str) < Len(args.instr)
    /\ out.str = args.instr

(* C23 as claimed: camel_to_snake_case(snake_to_camel_case(y)) = y for     *)
(* every y of ASCII letters and underscores with no leading or trailing    *)
(* underscore.                                                             *)
C23_Original ==
    (call = "camel_to_snake_case(snake_to_camel_case)"
        /\ args.instr # <<>>
        /\ args.instr[1] # "_"
        /\ args.instr[Len(args.instr)] # "_") =>
        out.str = args.instr

-----------------------------------------------------------------------------
(* SpecBatchFilters: a batch is parsed from documents some of which have   *)
(* filters, well formed or not.                                            *)

\* a document with a filters block
with_filters(doc, filters) ==
    [k \in DOMAIN doc \cup {"filters"} |->
        IF k = "filters" THEN filters ELSE doc[k]]

\* the document of src/tests/test_uar.py:319-337; the same with a filter
\* that starts with an operator, and with a filter whose operator token
\* FilterOperator does not alias before a filter that is well formed; and
\* two documents without filters, of different keys
FilterDocuments ==
    LET doc == document(<<1, 6, 6, 1, 9, 7, 5, 0>>,
                        <<[startDate |-> <<2022, 2, 1>>, endDate |-> <<2022, 2, 28>>]>>,
                        <<"date">>, <<"sessions">>)
        source == <<obj_ref("source"), operator_token("=="), string_literal("google")>>
        medium == <<obj_ref("medium"), IN_keyword, LPAR, string_literal("cpc"),
                    COMMA, string_literal("ppc"), RPAR>>
        sessions == <<obj_ref("sessions"), operator_token(">="), numeric_literal(100)>>
        no_column == <<operator_token("=="), string_literal("google")>>
        less == <<obj_ref("sessions"), operator_token("<"), numeric_literal(100)>>
    IN  {with_filters(doc, <<(<<dimensions_section, <<source, medium>>>>),
                             (<<metrics_section, <<sessions>>>>)>>),
         with_filters(doc, <<(<<dimensions_section, <<source, no_column>>>>),
                             (<<metrics_section, <<sessions>>>>)>>),
         with_filters(doc, <<(<<dimensions_section, <<source>>>>),
                             (<<metrics_section, <<less, sessions>>>>)>>),
         doc,
         document(<<1, 0, 1>>, <<FirstQuarter>>, <<"date">>, <<"sessions">>)}

InitBatchFilters ==
    /\ EngineIdle
    /\ MAXSIZE = 5
    /\ call = ""
    /\ args \in {[docs |-> docs] :
                    docs \in seqs_upto(FilterDocuments, MaxDocs) \ {<<>>}}
    /\ obj = None
    /\ out = None
    /\ raised = ""

NextBatchFilters == BatchFromDoc \/ BatchFromDocRaises \/ BatchToRequest

SpecBatchFilters == InitBatchFilters /\ [][NextBatchFilters]_vars

\* the exceptions with which Filter.from_doc fails on the filter
\* expressions of a document
filter_failures(doc) ==
    IF "filters" \notin DOMAIN doc THEN {}
    ELSE UNION {{Filter_from_doc(doc.filters[i][1], doc.filters[i][2][j]).exc :
                    j \in DOMAIN doc.filters[i][2]} : i \in DOMAIN doc.filters}
         \ {""}

\* the documents given whose filter expressions all parse
sound_documents == {i \in DOMAIN args.docs : filter_failures(args.docs[i]) = {}}

(* C24: when UARequestBatch.from_doc is given several documents and a      *)
(* filter expression of one of them fails (malformed, or with an operator  *)
(* that is not known), the failure is confined to that document: from_doc  *)
(* returns, and every other document is parsed and held in the batch       *)
(* under its key.                                                          *)
C24_FailureConfined ==
    (call = "from_doc"
        /\ sound_documents # {}
        /\ sound_documents # DOMAIN args.docs) =>
        /\ raised = ""
        /\ obj # None
        /\ \A i \in sound_documents :
               LET query == UARequest_from_doc(args.docs[i]).value IN
               \E k \in DOMAIN obj.data :
                   /\ obj.data[k][1] = query.key
                   /\ \E q \in DOMAIN obj.data[k][2] : obj.data[k][2][q] = query

-----------------------------------------------------------------------------
(* SpecDrain: execute_api_queries on input files of several lines, with a  *)
(* submission that never fails and that samples only requests all of       *)
(* whose date ranges span more than one day.                               *)

\* every date range of the request spans more than one day
spans_more_than_one_day(body) ==
    \A k \in DOMAIN body.reportRequests[1].dateRanges :
        days_of(body.reportRequests[1].dateRanges[k]) > 1

\* the sampled responses of these runs: samplingSpaceSizes[0] >=
\* samplesReadCounts[0] >= 1, asking for 2 and for 3 intervals
DrainResponses == {sampled_response(1, 1), sampled_response(2, 1)}

\* request bodies of the input files of these runs: one report request
\* over three days, and a batch of two report requests comparing two date
\* ranges
DrainBodies ==
    { [reportRequests |->
          <<report_request("201", <<date_range(0, 2)>>, "ga:sessions")>>,
       useResourceQuotas |-> FALSE],
      [reportRequests |->
          <<report_request("202", <<date_range(0, 3), date_range(4, 5)>>, "ga:sessions"),
            report_request("202", <<date_range(0, 3), date_range(4, 5)>>, "ga:users")>>,
       useResourceQuotas |-> FALSE] }

InitDrain ==
    /\ pc = "next"
    /\ \E lines \in seqs_upto(DrainBodies, MaxLines) \ {<<>>} :
          queue = <<input_generator(lines)>>
    /\ heap = <<>>
    /\ request_body = 0
    /\ n = 0
    /\ response = None
    /\ output_file = <<>>
    /\ error = ""
    /\ DEBUGGING \in BOOLEAN
    /\ trace = <<>>
    /\ origin = <<>>
    /\ UarIdle

\* ga-reporting.py:168: send_request returns the response of the first
\* request.execute()
SubmitReturns ==
    /\ pc = "execute"
    /\ \E resp \in {CleanResponse} \cup
                   (IF spans_more_than_one_day(heap[request_body])
                    THEN DrainResponses ELSE {}) :
          response' = resp
    /\ trace' = Append(trace, executed("ok"))
    /\ pc' = "handle"
    /\ UNCHANGED <<queue, heap, request_body, n, output_file, error,
                   DEBUGGING, origin>>
    /\ UNCHANGED uar_vars

NextDrain ==
    \/ NextRequest
    \/ QueueExhausted
    \/ SubmitReturns
    \/ HandleSampled
    \/ HandleClean

SpecDrain == InitDrain /\ [][NextDrain]_vars

\* the run goes on while it can: execute_api_queries is not suspended
FairDrain == SpecDrain /\ WF_vars(NextDrain)

\* the requests taken from the queue before request a that are of the same
\* kind and, for narrowed requests, of the same split, and a itself
rank(a) ==
    Cardinality({b \in Requests :
                    /\ b <= a
                    /\ origin[b].kind = origin[a].kind
                    /\ origin[b].parent = origin[a].parent})

\* the lines of the input file
lines_read ==
    LET i == CHOOSE i \in DOMAIN queue : queue[i].kind = "input"
    IN  queue[i].lines

(* C25: the work queue is first in, first out: the input requests are      *)
(* submitted in the order of the input lines; the narrowed requests of a   *)
(* split are submitted in sub-range order, after every input request and   *)
(* after every narrowed request of the splits made before it.              *)
C25_Fifo ==
    \A a \in Requests :
        /\ origin[a].kind = "input" => heap[a] = lines_read[rank(a)]
        /\ origin[a].kind = "narrowed" =>
               \E i \in DOMAIN queue :
                   /\ queue[i].kind = "split"
                   /\ queue[i].req = origin[a].parent
                   /\ heap[a] = with_date_ranges(
                          heap[origin[a].parent],
                          zip(generate_intervals(
                                  heap[origin[a].parent],
                                  calculate_samples(queue[i].resp).num_intervals))[rank(a)])
        /\ \A b \in Requests :
               a < b =>
                   /\ origin[b].kind = "input" => origin[a].kind = "input"
                   /\ (origin[a].kind = "narrowed" /\ origin[b].kind = "narrowed")
                          => origin[a].parent <= origin[b].parent

\* the first of two input lines was sampled and its narrowed requests were
\* submitted after the second line; one of them was sampled in turn, and
\* its narrowed requests were submitted after the one still queued
C25_Witness ==
    /\ pc = "done"
    /\ Len(lines_read) = 2
    /\ \E p, q \in BadReqs :
           /\ origin[p].parent = 1
           /\ \E b \in Requests : origin[b].kind = "input" /\ b > p
           /\ origin[origin[q].parent].kind = "narrowed"
           /\ origin[origin[q].parent].parent = p
           /\ Len(narrowed_of(q)) >= 2
           /\ \E sibling \in Requests :
                  /\ origin[sibling].kind = "narrowed"
                  /\ origin[sibling].parent = p
                  /\ q < sibling
                  /\ sibling < narrowed_of(q)[1]

-----------------------------------------------------------------------------
\* the i-th of the cnt sub-ranges of date range dr: per_interval_days days
\* from the day the previous one ends, the last one up to the end date
ith_sub_range(dr, cnt, i) ==
    LET per   == per_interval_days(days_of(dr), cnt)
        start == fromisoformat(dr.startDate) + (i - 1) * per
    IN  [startDate |-> isoformat(start),
         endDate   |-> IF i < cnt THEN isoformat(start + per - 1)
                       ELSE dr.endDate]

(* C26: when the generator of split_request is exhausted it has yielded    *)
(* exactly `intervals` narrowed requests, and every report request of the  *)
(* i-th narrowed request holds as many date ranges as the sampled request, *)
(* the k-th of them being the i-th sub-range of its k-th date range.       *)
C26_OnePerPosition ==
    pc = "done" =>
        \A p \in BadReqs :
            /\ Len(narrowed_of(p)) = intervals_asked
            /\ \A i \in DOMAIN narrowed_of(p) :
                   \A r \in DOMAIN heap[narrowed_of(p)[i]].reportRequests :
                       heap[narrowed_of(p)[i]].reportRequests[r].dateRanges =
                           [k \in DOMAIN heap[p].reportRequests[1].dateRanges |->
                               ith_sub_range(
                                   heap[p].reportRequests[1].dateRanges[k],
                                   intervals_asked, i)]

\* a request with two date ranges of different lengths was split in three
\* or more requests
C26_Witness ==
    /\ pc = "done"
    /\ \E p \in BadReqs :
           /\ Len(heap[p].reportRequests[1].dateRanges) = 2
           /\ days_of(heap[p].reportRequests[1].dateRanges[1])
                  > days_of(heap[p].reportRequests[1].dateRanges[2])
           /\ Len(narrowed_of(p)) >= 3
           /\ sub_ranges(p, 1) # sub_ranges(p, 2)

-----------------------------------------------------------------------------
\* the sampling markers of a report's data
SamplingMarkers == {"samplingSpaceSizes", "samplesReadCounts"}

\* the reports of the response that carry a sampling marker
marked_reports(resp) ==
    {i \in DOMAIN resp.reports :
        DOMAIN resp.reports[i].data \cap SamplingMarkers # {}}

(* C27: a response is treated as sampled exactly when at least one of its  *)
(* reports has samplingSpaceSizes or samplesReadCounts in its data: then   *)
(* its request is refined (a generator of narrowed requests is queued and  *)
(* no result record is written); a response all of whose reports lack both *)
(* is emitted as one newline-terminated record and nothing is queued.      *)
C27_SampledIffMarked ==
    [][(pc = "handle" /\ response # None) =>
          IF marked_reports(response) # {}
          THEN /\ Len(queue') = Len(queue) + 1
               /\ queue'[Len(queue')].kind = "split"
               /\ queue'[Len(queue')].resp = response
               /\ \A i \in DOMAIN output_file' :
                      i > Len(output_file) => ~output_file'[i].nl
          ELSE /\ queue' = queue
               /\ Len(output_file') = Len(output_file) + 1
               /\ output_file'[Len(output_file')].nl
               /\ output_file'[Len(output_file')].reports = response.reports
      ]_vars

\* a request was refined on the strength of a single marker in a report
\* that is not the first, and the generator of its narrowed requests is
\* queued
C27_Witness ==
    \E i \in DOMAIN queue :
        /\ queue[i].kind = "split"
        /\ marked_reports(queue[i].resp) = {2}
        /\ DOMAIN queue[i].resp.reports[2].data \cap SamplingMarkers
               = {"samplesReadCounts"}

-----------------------------------------------------------------------------
(* C28: detection and refinement agree: for every response whose request   *)
(* is refined, split_request computes the interval count without failing,  *)
(* the markers it reads (samplingSpaceSizes[0] and samplesReadCounts[0] of *)
(* the first report) being present.                                        *)
C28_DetectionAgrees ==
    \A i \in DOMAIN queue :
        queue[i].kind = "split" =>
            /\ lookup_error(queue[i].resp, "samplingSpaceSizes") = ""
            /\ lookup_error(queue[i].resp, "samplesReadCounts") = ""
            /\ calculate_samples(queue[i].resp).error = ""

-----------------------------------------------------------------------------
\* every date range of the requests submitted so far starts no later than
\* it ends
ranges_in_order ==
    \A a \in Requests :
        \A r \in DOMAIN heap[a].reportRequests :
            \A k \in DOMAIN heap[a].reportRequests[r].dateRanges :
                days_of(heap[a].reportRequests[r].dateRanges[k]) >= 1

(* C29: when no submission fails and only requests all of whose date       *)
(* ranges span more than one day get a sampled response (with              *)
(* samplingSpaceSizes[0] >= samplesReadCounts[0] >= 1),                    *)
(* execute_api_queries eventually exhausts the queue and returns, and      *)
(* every request it submits has startDate <= endDate in every date range.  *)
C29_Terminates == <>(pc = "done") /\ [](ranges_in_order)

-----------------------------------------------------------------------------
\* the handling of request a is over
handled(a) ==
    \/ a # request_body
    \/ pc \in {"next", "done"}
    \/ (pc = "raised" /\ ~fatal_for_request)

(* C30 (as amended): the output holds one newline-terminated record for    *)
(* every response that was not sampled and, when DEBUGGING is set, one     *)
(* record without a newline for every sampled response; when DEBUGGING is  *)
(* not set no sampled response is written.                                 *)
C30_Output ==
    /\ \A i \in DOMAIN output_file :
           IF marked_reports(output_file[i]) # {}
           THEN /\ DEBUGGING
                /\ ~output_file[i].nl
                /\ splits(output_file[i].addr) = 1
           ELSE output_file[i].nl
    /\ \A a \in Requests :
           /\ splits(a) = 1 =>
                  /\ emitted(a) = 0
                  /\ Cardinality(records_of(a)) = (IF DEBUGGING THEN 1 ELSE 0)
           /\ (handled(a) /\ splits(a) = 0) =>
                  /\ emitted(a) = 1
                  /\ Cardinality(records_of(a)) = 1

\* with DEBUGGING set a sampled response was dumped, and the response of
\* one of its narrowed requests was emitted after it
C30_Witness ==
    /\ DEBUGGING
    /\ \E i, j \in DOMAIN output_file :
           /\ i < j
           /\ marked_reports(output_file[i]) # {}
           /\ ~output_file[i].nl
           /\ output_file[j].nl
           /\ origin[output_file[j].addr].kind = "narrowed"

(* C30 as claimed: the output holds only newline-terminated records of     *)
(* responses that were not sampled, whatever DEBUGGING is.                 *)
C30_Original ==
    \A i \in DOMAIN output_file :
        /\ marked_reports(output_file[i]) = {}
        /\ output_file[i].nl

=============================================================================
